---------------------------- MODULE Spec2Model ----------------------------
(***************************************************************************)
(* A model of docker-manager: the HTTP control-plane sidecar that puts a   *)
(* command policy in front of the container runtime and reconciles the     *)
(* proxy's shadow backends with the overlay network's peers.               *)
(*                                                                         *)
(*   docker-manager/index.js                  policy, router, sync driver  *)
(*   docker-manager/lib/docker-client.js      runtime client, resolve cache*)
(*   docker-manager/lib/tailscale-shadow-sync.js   reconciliation cycle,   *)
(*                                            and (from line 227) config.js*)
(*                                                                         *)
(* JavaScript runs one callback at a time: every action below is the code  *)
(* that runs between two awaits of one task, taken atomically.             *)
(***************************************************************************)
EXTENDS Integers, Sequences, FiniteSets, TLC

VARIABLES
  config,        \* createConfig(): policy and sync settings, read-only after start
  probe,         \* the last application of a pure function: its input and output
  now,           \* Date.now(), in milliseconds since the process started
  cache,         \* DockerClient.containerResolveCache: key -> {value, expiresAt}
  tasks,         \* the calls of DockerClient methods in flight, by caller
  lastWrite,     \* history: per key, the last writeResolveCache (time, value)
  req,           \* the HTTP request being handled, and its response
  requestCount,  \* runtimeState.requestCount
  sync,          \* runtimeState.sync
  cycles,        \* the calls of runScheduledSync that got past its guards
  shadowDir,     \* the shadow-backend directory: file stem -> content
  timers,        \* the startup timer, and history: triggers fired and skipped
  child          \* one call of runCommand: its child process, timer and promise

clientVars == <<cache, tasks, lastWrite>>
httpVars   == <<req, requestCount>>
syncVars   == <<sync, cycles, shadowDir, timers>>

vars == <<config, probe, now, clientVars, httpVars, syncVars, child>>

(***************************************************************************)
(* Text.  A string the code inspects is a sequence of one-character        *)
(* strings; Undefined stands for null and undefined.                       *)
(***************************************************************************)
Undefined == << "undefined" >>

Whitespace == { " ", "\t", "\n", "\r" }

Alnum ==
  { "a","b","c","d","e","f","g","h","i","j","k","l","m","n","o","p","q","r",
    "s","t","u","v","w","x","y","z",
    "A","B","C","D","E","F","G","H","I","J","K","L","M","N","O","P","Q","R",
    "S","T","U","V","W","X","Y","Z",
    "0","1","2","3","4","5","6","7","8","9" }

RECURSIVE TrimStart(_)
TrimStart(text) ==
  IF text # <<>> /\ Head(text) \in Whitespace THEN TrimStart(Tail(text)) ELSE text

RECURSIVE TrimEnd(_)
TrimEnd(text) ==
  IF text # <<>> /\ text[Len(text)] \in Whitespace
    THEN TrimEnd(SubSeq(text, 1, Len(text) - 1))
    ELSE text

\* String(value ?? "").trim()
normalizeValue(value) ==
  IF value = Undefined THEN <<>> ELSE TrimEnd(TrimStart(value))

\* CONTAINER_NAME_PATTERN = /^[A-Za-z0-9][A-Za-z0-9_.-]*$/ on the trimmed name
isContainerNameValid_StartOnly(containerName) ==
  LET text == normalizeValue(containerName)
  IN text # <<>> /\ text[1] \in Alnum

\* config.js: CONTAINER_NAME_PATTERN tested on the trimmed name
isContainerNameValid(containerName) ==
  LET text == normalizeValue(containerName)
  IN /\ text # <<>>
     /\ text[1] \in Alnum
     /\ \A i \in 2..Len(text) : text[i] \in Alnum \cup {"_", ".", "-"}

(***************************************************************************)
(* The static catalog (config.js).                                         *)
(***************************************************************************)
SAFE_COMMAND_KEYS ==
  { "healthz", "help", "tailscale.status", "tailscale.ping", "tailscale.ip",
    "nginx.test", "nginx.version", "nginx.logs.access", "nginx.logs.error",
    "nginx.logs.shadow", "system.ps", "system.images", "system.networks",
    "system.volumes", "system.info", "system.version", "container.status",
    "container.logs", "container.inspect", "container.top", "container.stats",
    "container.start", "container.stop", "container.restart", "container.pause",
    "container.unpause" }

DANGEROUS_COMMAND_KEYS ==
  { "nginx.reload", "system.prune", "system.raw", "container.kill",
    "container.rm", "container.exec", "container.rename", "container.update",
    "container.raw" }

\* COMMAND_SPECS lists the safe keys first, then the dangerous ones; COMMAND_MAP
\* keeps the last entry of a key, and no key is in both lists.
COMMAND_MAP ==
  [key \in SAFE_COMMAND_KEYS \cup DANGEROUS_COMMAND_KEYS |->
     IF key \in DANGEROUS_COMMAND_KEYS THEN "dangerous" ELSE "safe"]

(***************************************************************************)
(* Policy configurations (createConfig, parseCommandPolicy, parseCsvSet).  *)
(* An allow-list is "*" (allowAll, the set being the category's defaults)  *)
(* or a CSV of names; names in a CSV need not be catalog names.            *)
(***************************************************************************)
MaxPolicySet == 1

\* Names an operator may write into an allow-list or the deny-list.
PolicyNames == { "help", "container.status", "nginx.reload", "bogus.op" }

\* Names a caller may ask about: the catalog and two names outside it.
AskedNames ==
  SAFE_COMMAND_KEYS \cup DANGEROUS_COMMAND_KEYS \cup {"bogus.op", "container.destroy"}

CsvSets == { s \in SUBSET PolicyNames : Cardinality(s) <= MaxPolicySet }

parseCommandPolicy(defaults) ==
  { [allowAll |-> TRUE, set |-> defaults] }
    \cup { [allowAll |-> FALSE, set |-> s] : s \in CsvSets }

PolicyConfigs ==
  [ enableSafeCommands      : BOOLEAN,
    enableDangerousCommands : BOOLEAN,
    safeCommandsPolicy      : parseCommandPolicy(SAFE_COMMAND_KEYS),
    dangerousCommandsPolicy : parseCommandPolicy(DANGEROUS_COMMAND_KEYS),
    blockedCommands         : CsvSets ]

(***************************************************************************)
(* isCommandAllowed (index.js).                                            *)
(***************************************************************************)
isCommandAllowed_DenyAfterAllowAll(commandKey) ==
  IF commandKey \notin DOMAIN COMMAND_MAP THEN FALSE
  ELSE IF COMMAND_MAP[commandKey] = "safe"
    THEN IF ~config.enableSafeCommands THEN FALSE
         ELSE config.safeCommandsPolicy.allowAll
                \/ (commandKey \in config.safeCommandsPolicy.set
                      /\ commandKey \notin config.blockedCommands)
    ELSE IF ~config.enableDangerousCommands THEN FALSE
         ELSE config.dangerousCommandsPolicy.allowAll
                \/ (commandKey \in config.dangerousCommandsPolicy.set
                      /\ commandKey \notin config.blockedCommands)

isCommandAllowed(commandKey) ==
  IF commandKey \notin DOMAIN COMMAND_MAP THEN FALSE
  ELSE IF commandKey \in config.blockedCommands THEN FALSE
  ELSE IF COMMAND_MAP[commandKey] = "safe"
    THEN IF ~config.enableSafeCommands THEN FALSE
         ELSE config.safeCommandsPolicy.allowAll
                \/ commandKey \in config.safeCommandsPolicy.set
  ELSE IF COMMAND_MAP[commandKey] = "dangerous"
    THEN IF ~config.enableDangerousCommands THEN FALSE
         ELSE config.dangerousCommandsPolicy.allowAll
                \/ commandKey \in config.dangerousCommandsPolicy.set
  ELSE FALSE

NoProbe == [fn |-> "none"]

NoRun == [pc |-> "none"]

DefaultConfig ==
  [ enableSafeCommands      |-> TRUE,
    enableDangerousCommands |-> TRUE,
    safeCommandsPolicy      |-> [allowAll |-> TRUE, set |-> SAFE_COMMAND_KEYS],
    dangerousCommandsPolicy |-> [allowAll |-> TRUE, set |-> DANGEROUS_COMMAND_KEYS],
    blockedCommands         |-> {},
    execShell               |-> << "s","h" >>,
    defaultLogTail          |-> 200,
    maxLogLines             |-> 2000 ]

(***************************************************************************)
(* The runtime client (docker-client.js).                                  *)
(*                                                                         *)
(* A task is one call of a DockerClient method.  Its plan lists the        *)
(* commands the method still has to run, each against a container that is  *)
(* resolved first (execInContainer, containerStatus, ...) or against the   *)
(* runtime as a whole.  An external process that was spawned answers with  *)
(* exit code 0, with a non-zero exit code, or not at all (runCommand        *)
(* rejects: the timeout fired or the spawn failed).                        *)
(***************************************************************************)
containerResolveTtlMs == 10000

NginxContainer     == << "n","g","i","n","x" >>              \* config.nginxContainer
TailscaleContainer == << "t","a","i","l","s","c","a","l","e" >>
WebService         == << "w","e","b" >>                       \* a compose service
WebContainer       == << "p","_","w","e","b","_","1" >>      \* its container
NoContainer        == <<>>                                    \* a system command

\* What `docker ps --filter label=...` may print as its first line.
PsLines == { <<>>, WebContainer }

TaskIds == { "c1", "c2", "http", "s1", "s2" }

IdleTask == [pc |-> "idle"]

CycleIds == { "s1", "s2" }

\* runtimeState.sync.lastResult before a cycle has returned: null
NoResult ==
  [ null |-> TRUE, changed |-> FALSE, previousIps |-> <<>>, nextIps |-> <<>>,
    added |-> <<>>, removed |-> <<>> ]

IdleCycle ==
  [ pc |-> "idle", source |-> "", previousState |-> <<>>, result |-> NoResult,
    error |-> "none", outcome |-> "none", wrote |-> FALSE,
    dirAtStart |-> <<>>, dirWritten |-> <<>>, steps |-> <<>>, ended |-> 0,
    last |-> "none" ]

NoRequest == [pc |-> "none"]

Step(container, cmd, allowFailure) ==
  [container |-> container, cmd |-> cmd, allowFailure |-> allowFailure,
   preOk |-> TRUE, postOk |-> TRUE, args |-> <<>>]

NewTask(op, plan) ==
  [pc |-> "start", op |-> op, plan |-> plan, calls |-> <<>>,
   resolved |-> <<>>, outcome |-> "none", error |-> "none",
   resName |-> <<>>, resStart |-> -1, resEnd |-> -1, resChecks |-> 0,
   resPrev |-> <<>>]

\* readResolveCache: [value, cache], the cache without the entry when it expired
readResolveCache_KeepsAtExpiry(c, containerName) ==
  LET key == normalizeValue(containerName)
  IN IF key \notin DOMAIN c THEN [value |-> <<>>, cache |-> c]
     ELSE IF c[key].expiresAt < now
       THEN [value |-> <<>>, cache |-> [k \in DOMAIN c \ {key} |-> c[k]]]
       ELSE [value |-> c[key].value, cache |-> c]

readResolveCache(c, containerName) ==
  LET key == normalizeValue(containerName)
  IN IF key \notin DOMAIN c THEN [value |-> <<>>, cache |-> c]
     ELSE IF c[key].expiresAt <= now
       THEN [value |-> <<>>, cache |-> [k \in DOMAIN c \ {key} |-> c[k]]]
       ELSE [value |-> c[key].value, cache |-> c]

writeResolveCache(c, containerName, resolvedName) ==
  LET key   == normalizeValue(containerName)
      value == normalizeValue(resolvedName)
  IN IF key = <<>> \/ value = <<>> THEN c
     ELSE [k \in DOMAIN c \cup {key} |->
             IF k = key
               THEN [value |-> value, expiresAt |-> now + containerResolveTtlMs]
               ELSE c[k]]

\* The history of writeResolveCache: the same guard, the time of the write.
NoteWrite(h, containerName, resolvedName) ==
  LET key   == normalizeValue(containerName)
      value == normalizeValue(resolvedName)
  IN IF key = <<>> \/ value = <<>> THEN h
     ELSE [k \in DOMAIN h \cup {key} |->
             IF k = key THEN [value |-> value, at |-> now] ELSE h[k]]

\* A process of the container's resolution, and a process of the method's
\* own command with the arguments the method computed.
Spawn(tk, cmd, target) ==
  [tk EXCEPT !.calls = Append(@, [cmd |-> cmd, target |-> target, code |-> "pending",
                                  args |-> <<>>])]

SpawnStep(tk, step, target) ==
  [tk EXCEPT !.calls = Append(@, [cmd |-> step.cmd, target |-> target,
                                  code |-> "pending", args |-> step.args])]

\* The answer of the process spawned last.
Answered(tk, code) ==
  [tk EXCEPT !.calls[Len(tk.calls)].code = code]

Throw(tk, error) ==
  [tk EXCEPT !.pc = "done", !.outcome = "threw", !.error = error]

AfterResolve_Unchecked(tk, resolved) ==
  [SpawnStep(tk, Head(tk.plan), resolved)
     EXCEPT !.pc = "run", !.resolved = resolved, !.resEnd = now]

\* resolveContainerTarget has returned `resolved`: the method checks its other
\* arguments (containerExec, containerRaw, containerUpdate, containerRename)
\* and spawns its command.
AfterResolve(tk, resolved) ==
  LET step == Head(tk.plan)
  IN IF ~step.postOk THEN Throw([tk EXCEPT !.resolved = resolved], "invalid")
     ELSE [SpawnStep(tk, step, resolved)
             EXCEPT !.pc = "run", !.resolved = resolved, !.resEnd = now]

\* The synchronous start of the plan's first command, up to its first await
\* (resolveContainerTarget, 108-120).  c is the cache and h the history of its
\* writes; the result is [task, cache, hist].
StartStep(tk, c, h) ==
  LET step == Head(tk.plan)
  IN IF ~step.preOk THEN [task |-> Throw(tk, "invalid"), cache |-> c, hist |-> h]
     ELSE IF step.container = NoContainer
       THEN [task |-> [SpawnStep(tk, step, NoContainer) EXCEPT !.pc = "run"],
             cache |-> c, hist |-> h]
     ELSE IF ~isContainerNameValid(step.container)
       THEN [task |-> Throw(tk, "invalid"), cache |-> c, hist |-> h]
     ELSE LET directName == normalizeValue(step.container)
              cached     == readResolveCache(c, directName)
              began      == [tk EXCEPT !.resName = directName, !.resStart = now,
                               !.resEnd = -1, !.resChecks = 0, !.resolved = <<>>,
                               !.resPrev = IF directName \in DOMAIN h
                                             THEN << h[directName] >>
                                             ELSE <<>>]
          IN IF cached.value # <<>>
               THEN [task |-> AfterResolve(began, cached.value),
                     cache |-> cached.cache, hist |-> h]
               ELSE [task |-> [Spawn(began, "container inspect", directName)
                                 EXCEPT !.pc = "inspect", !.resChecks = 1],
                     cache |-> cached.cache, hist |-> h]

\* A caller invokes a DockerClient method.
Invoke(op, plan, c, h) == StartStep(NewTask(op, plan), c, h)

DirectName(tk) == normalizeValue(Head(tk.plan).container)

\* What a spawned process may answer: an exit code or nothing (runCommand
\* rejects), and, for `docker ps`, the first line of its output.
Answers == [code : {"exit0", "exit1", "reject"}, line : PsLines]

InspectReturns_CachesUnchecked(tk0, c, h, ans) ==
  LET tk == Answered(tk0, ans.code)
  IN CASE ans.code = "exit0" ->
            [task  |-> AfterResolve(tk, DirectName(tk)),
             cache |-> writeResolveCache(c, DirectName(tk), DirectName(tk)),
             hist  |-> NoteWrite(h, DirectName(tk), DirectName(tk))]
       [] ans.code = "exit1" ->
            [task  |-> [Spawn(tk, "ps --filter label", DirectName(tk))
                          EXCEPT !.pc = "ps", !.resChecks = @ + 1],
             cache |-> writeResolveCache(c, DirectName(tk), DirectName(tk)),
             hist  |-> NoteWrite(h, DirectName(tk), DirectName(tk))]
       [] OTHER ->
            [task |-> Throw(tk, "process"), cache |-> c, hist |-> h]

\* `docker container inspect <name>` answers (resolveContainerTarget, 117-124).
InspectReturns(tk0, c, h, ans) ==
  LET tk == Answered(tk0, ans.code)
  IN CASE ans.code = "exit0" ->
            [task  |-> AfterResolve(tk, DirectName(tk)),
             cache |-> writeResolveCache(c, DirectName(tk), DirectName(tk)),
             hist  |-> NoteWrite(h, DirectName(tk), DirectName(tk))]
       [] ans.code = "exit1" ->
            [task  |-> [Spawn(tk, "ps --filter label", DirectName(tk))
                          EXCEPT !.pc = "ps", !.resChecks = @ + 1],
             cache |-> c, hist |-> h]
       [] OTHER ->
            [task |-> Throw(tk, "process"), cache |-> c, hist |-> h]

ComposeReturns_SkipsStopped(tk0, c, h, ans) ==
  LET tk == Answered(tk0, ans.code)
  IN CASE ans.code = "reject" ->
            [task |-> Throw(tk, "process"), cache |-> c, hist |-> h]
       [] ans.code # "reject" /\ ans.line # <<>> ->
            [task  |-> AfterResolve(tk, ans.line),
             cache |-> writeResolveCache(writeResolveCache(c, DirectName(tk), ans.line),
                                         ans.line, ans.line),
             hist  |-> NoteWrite(NoteWrite(h, DirectName(tk), ans.line),
                                 ans.line, ans.line)]
       [] OTHER ->
            [task |-> Throw(tk, "notfound"), cache |-> c, hist |-> h]

\* findContainerByComposeService and resolveContainerTarget, 126-138: `docker ps
\* --filter label=...` (then the same with -a) answers, with any exit code
\* (allowFailure).  A name found is cached under both names; nothing found
\* among all containers is "container not found".
ComposeReturns(tk0, c, h, ans) ==
  LET tk == Answered(tk0, ans.code)
  IN CASE ans.code = "reject" ->
            [task |-> Throw(tk, "process"), cache |-> c, hist |-> h]
       [] ans.code # "reject" /\ ans.line # <<>> ->
            [task  |-> AfterResolve(tk, ans.line),
             cache |-> writeResolveCache(writeResolveCache(c, DirectName(tk), ans.line),
                                         ans.line, ans.line),
             hist  |-> NoteWrite(NoteWrite(h, DirectName(tk), ans.line),
                                 ans.line, ans.line)]
       [] ans.code # "reject" /\ ans.line = <<>> /\ tk.pc = "ps" ->
            [task  |-> [Spawn(tk, "ps -a --filter label", DirectName(tk))
                          EXCEPT !.pc = "psa", !.resChecks = @ + 1],
             cache |-> c, hist |-> h]
       [] OTHER ->
            [task |-> Throw(tk, "notfound"), cache |-> c, hist |-> h]

\* runDocker, 35-48: whether the answer of the method's command is returned
\* (otherwise it is thrown, the Result attached).
runDocker_IgnoresExitCode(step, code) == code \in {"exit0", "exit1"}

runDocker(step, code) ==
  code = "exit0" \/ (code = "exit1" /\ step.allowFailure)

\* The method's command answers: runDocker returns its Result or throws, and
\* the method goes on to its next command (nginxReload, 170-173) or returns.
RunReturns_Invalidates(tk0, c, h, ans) ==
  LET tk   == Answered(tk0, ans.code)
      step == Head(tk.plan)
  IN IF ans.code = "reject"
       THEN [task |-> Throw(tk, "process"), cache |-> c, hist |-> h]
     ELSE IF ~runDocker(step, ans.code)
       THEN [task |-> [tk EXCEPT !.pc = "done", !.outcome = "failed",
                                  !.error = "command"],
             cache |-> c, hist |-> h]
     ELSE IF Tail(tk.plan) = <<>>
       THEN [task |-> [tk EXCEPT !.pc = "done",
                         !.outcome = IF ans.code = "exit0" THEN "ok" ELSE "nonzero"],
             cache |-> IF step.cmd \in {"rm", "rename"}
                         THEN [k \in DOMAIN c \ {tk.resName, tk.resolved} |-> c[k]]
                         ELSE c,
             hist |-> h]
     ELSE StartStep([tk EXCEPT !.plan = Tail(tk.plan)], c, h)

\* The method's own command answers: runDocker, 35-48, returns or throws, and
\* the method goes on to its next command, if it has one.
RunReturns(tk0, c, h, ans) ==
  LET tk   == Answered(tk0, ans.code)
      step == Head(tk.plan)
      rest == Tail(tk.plan)
  IN IF ans.code = "reject"
       THEN [task |-> Throw(tk, "process"), cache |-> c, hist |-> h]
     ELSE IF ~runDocker(step, ans.code)
       THEN [task |-> [tk EXCEPT !.pc = "done", !.outcome = "failed",
                                  !.error = "command"],
             cache |-> c, hist |-> h]
     ELSE IF rest = <<>>
       THEN [task |-> [tk EXCEPT !.pc = "done",
                         !.outcome = IF ans.code = "exit0" THEN "ok" ELSE "nonzero"],
             cache |-> c, hist |-> h]
     ELSE StartStep([tk EXCEPT !.plan = rest], c, h)

\* The process a task waits for answers: the task runs to its next await.
ProcessAnswers(tk, c, h, ans) ==
  CASE tk.pc = "inspect"        -> InspectReturns(tk, c, h, ans)
    [] tk.pc \in {"ps", "psa"}  -> ComposeReturns(tk, c, h, ans)
    [] tk.pc = "run"            -> RunReturns(tk, c, h, ans)

Waiting(tk) == tk.pc \in {"inspect", "ps", "psa", "run"}

\* Answers that differ only in what the waiting task does not read are one:
\* the exit code of `docker ps` (allowFailure), the output of the others.
AnswersFor(tk) ==
  IF tk.pc \in {"ps", "psa"}
    THEN { ans \in Answers : /\ ans.code # "exit1"
                              /\ ans.code = "reject" => ans.line = <<>> }
    ELSE { ans \in Answers : ans.line = <<>> }

\* The methods' plans.
nginxTest == << Step(NginxContainer, "nginx -t", FALSE) >>

nginxReload ==
  << Step(NginxContainer, "nginx -t", FALSE),
     Step(NginxContainer, "nginx -s reload", FALSE) >>

containerStatus(containerName) == << Step(containerName, "ps -a --filter name", FALSE) >>

\* A command the method spawns only if its arguments pass: preOk is checked
\* before the container is resolved, postOk after.
StepIf(container, cmd, allowFailure, preOk, postOk) ==
  [container |-> container, cmd |-> cmd, allowFailure |-> allowFailure,
   preOk |-> preOk, postOk |-> postOk, args |-> <<>>]

\* a || b over texts
OrElse(a, b) == IF a = Undefined \/ a = <<>> THEN b ELSE a

\* ... and the arguments the method passes with the command.
StepArgs(container, cmd, allowFailure, preOk, postOk, args) ==
  [container |-> container, cmd |-> cmd, allowFailure |-> allowFailure,
   preOk |-> preOk, postOk |-> postOk, args |-> args]

Digit ==
  [ c \in {"0","1","2","3","4","5","6","7","8","9"} |->
      CASE c = "0" -> 0 [] c = "1" -> 1 [] c = "2" -> 2 [] c = "3" -> 3
        [] c = "4" -> 4 [] c = "5" -> 5 [] c = "6" -> 6 [] c = "7" -> 7
        [] c = "8" -> 8 [] c = "9" -> 9 ]

\* Number.parseInt(item, 10) of a run of digits
RECURSIVE ParseDigits(_)
ParseDigits(item) ==
  IF item = <<>> THEN 0
  ELSE 10 * ParseDigits(SubSeq(item, 1, Len(item) - 1)) + Digit[item[Len(item)]]

Digits == DOMAIN Digit

\* The longest run of digits text has from position i.
DigitRun(text, i) ==
  LET stops == { k \in i..Len(text) : text[k] \notin Digits }
      last  == IF stops = {} THEN Len(text)
               ELSE (CHOOSE k \in stops : \A other \in stops : k <= other) - 1
  IN SubSeq(text, i, last)

\* The digits without the zeros they start with, but for the last one.
StripZeros(digits) ==
  LET others == { k \in 1..Len(digits) : digits[k] # "0" }
      first  == IF others = {} THEN Len(digits)
                ELSE CHOOSE k \in others : \A other \in others : k <= other
  IN SubSeq(digits, first, Len(digits))

\* Number.parseInt(text, 10) of a trimmed text: an optional sign, then the
\* digits the text starts with, whatever follows them.  Without a digit the
\* result is NaN; more than 309 digits are beyond the largest double and
\* give Infinity.  The callers compare a finite value with bounds of at most
\* five digits, so a value of more than nine digits is kept as 10^9.
ParseInt(text) ==
  LET signed == text # <<>> /\ Head(text) \in {"+", "-"}
      run    == DigitRun(text, IF signed THEN 2 ELSE 1)
      digits == StripZeros(run)
      size   == IF Len(digits) > 9 THEN 1000000000 ELSE ParseDigits(digits)
  IN IF run = <<>> THEN [kind |-> "NaN", value |-> 0]
     ELSE IF Len(digits) > 309 THEN [kind |-> "Infinity", value |-> 0]
     ELSE [kind |-> "finite",
           value |-> IF signed /\ Head(text) = "-" THEN 0 - size ELSE size]

parsePositiveInt_FallbackBelowMin(value, fallback, min, max) ==
  LET parsed == ParseInt(normalizeValue(value))
  IN IF parsed.kind # "finite" \/ parsed.value < min THEN fallback
     ELSE IF parsed.value > max THEN max
     ELSE parsed.value

\* parsePositiveInt, 12-25
parsePositiveInt(value, fallback, min, max) ==
  LET parsed == ParseInt(normalizeValue(value))
  IN IF parsed.kind # "finite" THEN fallback
     ELSE IF parsed.value < min THEN min
     ELSE IF parsed.value > max THEN max
     ELSE parsed.value

DigitChars == << "0","1","2","3","4","5","6","7","8","9" >>

\* String(n) of an integer
RECURSIVE StringOf(_)
StringOf(n) ==
  IF n < 0 THEN << "-" >> \o StringOf(0 - n)
  ELSE IF n < 10 THEN << DigitChars[n + 1] >>
  ELSE Append(StringOf(n \div 10), DigitChars[(n % 10) + 1])


LOG_TYPES == { << "a","c","c","e","s","s" >>, << "e","r","r","o","r" >>,
               << "s","h","a","d","o","w" >> }

tailscaleStatus(asJson) ==
  << Step(TailscaleContainer,
          IF asJson THEN "tailscale status --json" ELSE "tailscale status", FALSE) >>

tailscaleIp == << Step(TailscaleContainer, "tailscale ip", FALSE) >>

nginxVersion == << Step(NginxContainer, "nginx -v", FALSE) >>

\* containerInspect (no allowFailure), containerTop, containerStats
containerRead(containerName, key) ==
  << Step(containerName, key, key # "container.inspect") >>

tailscalePing(target, count) ==
  LET normalizedTarget == normalizeValue(target)
      pingCount        == parsePositiveInt(count, 3, 1, 10)
  IN << StepArgs(TailscaleContainer, "tailscale ping", FALSE,
                 normalizedTarget # <<>>, TRUE,
                 << << "t","a","i","l","s","c","a","l","e" >>, << "p","i","n","g" >>, << "-","c" >>, StringOf(pingCount), normalizedTarget >>) >>

\* tailLines is the number the handler has parsed; the log file is named by
\* its type.
nginxLogs(logType, tailLines) ==
  LET tail == parsePositiveInt(StringOf(tailLines), config.defaultLogTail,
                               1, config.maxLogLines)
  IN << StepArgs(NginxContainer, "tail -n", TRUE,
                 normalizeValue(logType) \in LOG_TYPES, TRUE,
                 << << "t","a","i","l" >>, << "-","n" >>, StringOf(tail), normalizeValue(logType) >>) >>

systemCommand(name) ==
  << StepIf(NoContainer, name,
            FALSE, name \in {"ps", "images", "networks", "volumes", "info", "version"},
            TRUE) >>

PruneScopes ==
  { <<>>, << "a","l","l" >>, << "c","o","n","t","a","i","n","e","r","s" >>,
    << "i","m","a","g","e","s" >>, << "n","e","t","w","o","r","k","s" >>,
    << "v","o","l","u","m","e","s" >>, << "b","u","i","l","d","e","r" >> }

\* The sample scopes are lower-case already.
systemPrune(scope) ==
  << StepIf(NoContainer, "prune -f", FALSE, normalizeValue(scope) \in PruneScopes, TRUE) >>

systemRaw(args) == << StepIf(NoContainer, "raw", FALSE, args # <<>>, TRUE) >>

containerLogs(containerName, options) ==
  LET tail == parsePositiveInt(options.tail, config.defaultLogTail,
                               1, config.maxLogLines)
  IN << StepArgs(containerName, "logs", TRUE, TRUE, TRUE,
                 << << "l","o","g","s" >>, << "-","-","t","a","i","l" >>, StringOf(tail) >>
                 \o (IF normalizeValue(options.since) # <<>>
                       THEN << << "-","-","s","i","n","c","e" >>, normalizeValue(options.since) >> ELSE <<>>)
                 \o (IF normalizeValue(options.timestamps) = << "1" >>
                       THEN << << "-","-","t","i","m","e","s","t","a","m","p","s" >> >> ELSE <<>>)) >>

containerMutate(containerName, commandName) ==
  << StepIf(containerName, commandName, TRUE, TRUE,
            commandName \in {"start", "stop", "restart", "pause", "unpause", "kill", "rm"}) >>

containerRename(containerName, toName) ==
  << StepIf(containerName, "rename", TRUE, TRUE, isContainerNameValid(toName)) >>

containerUpdate(containerName, updateArgs) ==
  << StepIf(containerName, "update", TRUE, TRUE, updateArgs # <<>>) >>

ExecShells == { << "s","h" >>, << "b","a","s","h" >>, << "z","s","h" >>, << "a","s","h" >> }

containerExec_AnyShell(containerName, shellName, commandText) ==
  << StepArgs(containerName, "exec", TRUE, TRUE, normalizeValue(commandText) # <<>>,
              << OrElse(normalizeValue(shellName), config.execShell), << "-","l","c" >>,
                 normalizeValue(commandText) >>) >>

containerExec(containerName, shellName, commandText) ==
  LET shell     == OrElse(normalizeValue(shellName), config.execShell)
      safeShell == IF shell \in ExecShells THEN shell ELSE << "s","h" >>
      command   == normalizeValue(commandText)
  IN << StepArgs(containerName, "exec", TRUE, TRUE, command # <<>>,
                 << safeShell, << "-","l","c" >>, command >>) >>

containerRaw(containerName, args) ==
  << StepIf(containerName, "raw", TRUE, TRUE, args # <<>>) >>

(***************************************************************************)
(* Callers of the client on their own: two callers, each invoking one      *)
(* method at a time, while the clock advances.                             *)
(***************************************************************************)
TickMs   == 5000
MaxTicks == 2

Clients      == { "c1", "c2" }
ProxyClients == { "c1" }

\* The proxy-control routes' methods, and a unit-scoped method on a service
\* name and on the name of its container.
ProxyMethods ==
  { [op |-> "nginxTest",   plan |-> nginxTest],
    [op |-> "nginxReload", plan |-> nginxReload] }

UnitMethods ==
  { [op |-> "containerStatus", plan |-> containerStatus(WebService)],
    [op |-> "containerStatus", plan |-> containerStatus(WebContainer)] }

Tick ==
  /\ now < MaxTicks * TickMs
  /\ now' = now + TickMs
  /\ UNCHANGED <<config, child, probe, clientVars, httpVars, syncVars>>

ClientCalls(t, method) ==
  /\ tasks[t].pc = "idle"
  /\ LET started == Invoke(method.op, method.plan, cache, lastWrite)
     IN /\ tasks' = [tasks EXCEPT ![t] = started.task]
        /\ cache' = started.cache
        /\ lastWrite' = started.hist
  /\ UNCHANGED <<config, child, probe, now, httpVars, syncVars>>

ClientAnswered(t, ans) ==
  /\ Waiting(tasks[t])
  /\ LET next == ProcessAnswers(tasks[t], cache, lastWrite, ans)
     IN /\ tasks' = [tasks EXCEPT ![t] = next.task]
        /\ cache' = next.cache
        /\ lastWrite' = next.hist
  /\ UNCHANGED <<config, child, probe, now, httpVars, syncVars>>

\* The caller has the method's result or error.
ClientReturned(t) ==
  /\ tasks[t].pc = "done"
  /\ tasks' = [tasks EXCEPT ![t] = IdleTask]
  /\ UNCHANGED <<config, child, probe, now, cache, lastWrite, httpVars, syncVars>>

\* The state once the module is loaded (index.js, 12-33; DockerClient's
\* constructor), whatever the configuration: nothing is in flight.
Loaded ==
  /\ probe = NoProbe
  /\ child = NoRun
  /\ now = 0
  /\ cache = <<>>
  /\ tasks = [t \in TaskIds |-> IdleTask]
  /\ lastWrite = <<>>
  /\ req = NoRequest
  /\ requestCount = 0
  /\ sync = [ inProgress |-> FALSE, lastRunAt |-> -1, lastSuccessAt |-> -1,
              lastError |-> "", lastResult |-> NoResult, totalRuns |-> 0,
              totalFailures |-> 0 ]
  /\ cycles = [c \in CycleIds |-> IdleCycle]
  /\ timers = [startup |-> FALSE, fired |-> 0, skipped |-> 0]

\* ... and the shadow directory is empty.
Started ==
  /\ Loaded
  /\ shadowDir = <<>>

InitClient ==
  /\ config = DefaultConfig
  /\ Started

\* One call of isCommandAllowed, as requirePermission and buildHelpText make it.
CheckCommand(commandKey) ==
  /\ probe' = [fn |-> "isCommandAllowed", arg |-> commandKey,
               out |-> isCommandAllowed(commandKey)]
  /\ UNCHANGED <<config, child, now, clientVars, httpVars, syncVars>>

InitPolicy ==
  /\ config \in PolicyConfigs
  /\ Started

NextPolicy == \E commandKey \in AskedNames : CheckCommand(commandKey)

SpecPolicy == InitPolicy /\ [][NextPolicy]_vars

NextProxy ==
  \/ Tick
  \/ \E t \in ProxyClients, method \in ProxyMethods : ClientCalls(t, method)
  \/ \E t \in ProxyClients : \E ans \in AnswersFor(tasks[t]) : ClientAnswered(t, ans)
  \/ \E t \in ProxyClients : ClientReturned(t)

SpecProxy == InitClient /\ [][NextProxy]_vars

NextResolve ==
  \/ Tick
  \/ \E t \in Clients, method \in UnitMethods : ClientCalls(t, method)
  \/ \E t \in Clients : \E ans \in AnswersFor(tasks[t]) : ClientAnswered(t, ans)
  \/ \E t \in Clients : ClientReturned(t)

SpecResolve == InitClient /\ [][NextResolve]_vars

(***************************************************************************)
(* Argument collection (index.js: parseShellWords, collectArgs,            *)
(* collectCommandText).  A request is its query parameters and its body,   *)
(* the body being its text and what JSON.parse made of it (NoJson: the     *)
(* text is empty or is not JSON).                                          *)
(***************************************************************************)
RECURSIVE ShellWords(_, _, _, _, _)
ShellWords(source, i, current, quote, result) ==
  LET flushed == IF current # <<>> THEN Append(result, current) ELSE result
  IN IF i > Len(source) THEN flushed
     ELSE LET ch == source[i]
          IN IF quote # ""
               THEN IF ch = quote
                      THEN ShellWords(source, i + 1, current, "", result)
                    ELSE IF ch = "\\" /\ i + 1 <= Len(source)
                      THEN ShellWords(source, i + 2, Append(current, source[i + 1]),
                                      quote, result)
                    ELSE ShellWords(source, i + 1, Append(current, ch), quote, result)
             ELSE IF ch \in {"\"", "'"}
               THEN ShellWords(source, i + 1, current, ch, result)
             ELSE IF ch \in Whitespace
               THEN ShellWords(source, i + 1, <<>>, "", flushed)
             ELSE IF ch = "\\" /\ i + 1 <= Len(source)
               THEN ShellWords(source, i + 2, Append(current, source[i + 1]), "", result)
             ELSE ShellWords(source, i + 1, Append(current, ch), "", result)

parseShellWords(text) ==
  LET source == normalizeValue(text)
  IN IF source = <<>> THEN <<>> ELSE ShellWords(source, 1, <<>>, "", <<>>)

\* text.split(",")
RECURSIVE SplitComma(_, _, _)
SplitComma(text, i, current) ==
  IF i > Len(text) THEN << current >>
  ELSE IF text[i] = "," THEN << current >> \o SplitComma(text, i + 1, <<>>)
  ELSE SplitComma(text, i + 1, Append(current, text[i]))

\* The values of a list that are not empty once trimmed, trimmed.
RECURSIVE NormalizedValues(_)
NormalizedValues(items) ==
  IF items = <<>> THEN <<>>
  ELSE LET value == normalizeValue(Head(items))
       IN (IF value # <<>> THEN << value >> ELSE <<>>) \o NormalizedValues(Tail(items))

Includes(text, ch) == \E i \in 1..Len(text) : text[i] = ch

\* The tokens of the `args` query parameter.
ArgsCsvTokens(urlObj) ==
  LET argsCsv == normalizeValue(urlObj.args)
  IN IF argsCsv = <<>> THEN <<>>
     ELSE IF Includes(argsCsv, ",") THEN NormalizedValues(SplitComma(argsCsv, 1, <<>>))
     ELSE parseShellWords(argsCsv)

NoJson == [isObject |-> FALSE]

JsonArgs(body) ==
  IF body.json.isObject /\ body.json.args # Undefined
    THEN NormalizedValues(body.json.args)
    ELSE <<>>

collectArgs_TextAlways(urlObj, body) ==
  NormalizedValues(urlObj.arg) \o ArgsCsvTokens(urlObj) \o JsonArgs(body)
    \o parseShellWords(body.text)

collectArgs(urlObj, body) ==
  LET args == NormalizedValues(urlObj.arg) \o ArgsCsvTokens(urlObj) \o JsonArgs(body)
  IN IF args = <<>> /\ body.text # <<>> THEN parseShellWords(body.text) ELSE args

\* a || b on strings: a unless it is null or "".

collectCommandText_AnyJsonField(urlObj, body) ==
  LET fromQuery == normalizeValue(OrElse(urlObj.cmd, urlObj.command))
  IN IF fromQuery # <<>> THEN fromQuery
     ELSE IF body.json.isObject THEN normalizeValue(body.json.cmd)
     ELSE normalizeValue(body.text)

collectCommandText(urlObj, body) ==
  LET fromQuery == normalizeValue(OrElse(urlObj.cmd, urlObj.command))
  IN IF fromQuery # <<>> THEN fromQuery
     ELSE IF body.json.isObject /\ body.json.cmd # Undefined
       THEN normalizeValue(body.json.cmd)
     ELSE IF body.json.isObject /\ body.json.command # Undefined
       THEN normalizeValue(body.json.command)
     ELSE normalizeValue(body.text)

\* Sample texts.
Foo   == << "f","o","o" >>
Bar   == << "b","a","r" >>
Ls    == << "l","s" >>
LsLa  == << "l","s"," ","-","l","a" >>
Pwd   == << "p","w","d" >>
Blank == << " " >>

Json(args, cmd, command) ==
  [isObject |-> TRUE, args |-> args, cmd |-> cmd, command |-> command]

\* Request bodies: the text sent and its JSON.parse.
Bodies ==
  { [text |-> <<>>, json |-> NoJson],
    [text |-> LsLa, json |-> NoJson],
    \* {"args":["bar"]}
    [text |-> << "{","\"","a","r","g","s","\"",":","[","\"","b","a","r","\"","]","}" >>,
     json |-> Json(<< Bar >>, Undefined, Undefined)],
    \* {"args":[]}
    [text |-> << "{","\"","a","r","g","s","\"",":","[","]","}" >>,
     json |-> Json(<<>>, Undefined, Undefined)],
    \* {"cmd":"ls"}
    [text |-> << "{","\"","c","m","d","\"",":","\"","l","s","\"","}" >>,
     json |-> Json(Undefined, Ls, Undefined)],
    \* {"cmd":""}
    [text |-> << "{","\"","c","m","d","\"",":","\"","\"","}" >>,
     json |-> Json(Undefined, <<>>, Undefined)],
    \* {"command":"pwd"}
    [text |-> << "{","\"","c","o","m","m","a","n","d","\"",":","\"","p","w","d","\"","}" >>,
     json |-> Json(Undefined, Undefined, Pwd)],
    \* {"cmd":"","command":"pwd"}
    [text |-> << "{","\"","c","m","d","\"",":","\"","\"",",","\"","c","o","m","m","a","n","d",
                 "\"",":","\"","p","w","d","\"","}" >>,
     json |-> Json(Undefined, <<>>, Pwd)] }

\* Query strings: the repeated `arg`, and `args`, `cmd`, `command` (Undefined
\* when the parameter is absent).
ArgQueries ==
  [ arg     : { <<>>, << Foo >>, << Foo, Blank, Bar >>, << Blank >> },
    args    : { Undefined, Blank, << "a",",","b" >>, << "a"," ","\"","b"," ","c","\"" >> },
    cmd     : { Undefined },
    command : { Undefined } ]

CommandQueries ==
  [ arg     : { <<>> },
    args    : { Undefined },
    cmd     : { Undefined, <<>>, Blank, Ls },
    command : { Undefined, Pwd } ]

CollectArgs(urlObj, body) ==
  /\ probe' = [fn |-> "collectArgs", urlObj |-> urlObj, body |-> body,
               out |-> collectArgs(urlObj, body)]
  /\ UNCHANGED <<config, child, now, clientVars, httpVars, syncVars>>

CollectCommandText(urlObj, body) ==
  /\ probe' = [fn |-> "collectCommandText", urlObj |-> urlObj, body |-> body,
               out |-> collectCommandText(urlObj, body)]
  /\ UNCHANGED <<config, child, now, clientVars, httpVars, syncVars>>

NextArgs ==
  \/ \E urlObj \in ArgQueries, body \in Bodies : CollectArgs(urlObj, body)
  \/ \E urlObj \in CommandQueries, body \in Bodies : CollectCommandText(urlObj, body)

SpecArgs == InitClient /\ [][NextArgs]_vars

(***************************************************************************)
(* The request router (index.js: requestHandler, handleSystemRoute,        *)
(* handleContainerRoute, ensureMethod, requirePermission,                  *)
(* sendCommandResult, handleCommandError).                                 *)
(*                                                                         *)
(* A request is its method, the segments of its path and its query; its    *)
(* body arrives when the handler reads it.  The sample segments are        *)
(* lower-case words; Chars gives the characters of a segment.              *)
(***************************************************************************)
MaxRequests == 1

Methods == { "GET", "POST", "DELETE" }

Chars ==
  [ web |-> WebService, nginx |-> NginxContainer,
    system |-> << "s","y","s","t","e","m" >>,
    tailscale |-> TailscaleContainer,
    ps |-> << "p","s" >>, prune |-> << "p","r","u","n","e" >>,
    raw |-> << "r","a","w" >>, df |-> << "d","f" >>,
    status |-> << "s","t","a","t","u","s" >>, logs |-> << "l","o","g","s" >>,
    restart |-> << "r","e","s","t","a","r","t" >>, kill |-> << "k","i","l","l" >>,
    exec |-> << "e","x","e","c" >>, rename |-> << "r","e","n","a","m","e" >>,
    update |-> << "u","p","d","a","t","e" >>, attach |-> << "a","t","t","a","c","h" >>,
    access |-> << "a","c","c","e","s","s" >>, debug |-> << "d","e","b","u","g" >>,
    ping |-> << "p","i","n","g" >>, test |-> << "t","e","s","t" >>,
    reload |-> << "r","e","l","o","a","d" >>,
    constructor |-> << "c","o","n","s","t","r","u","c","t","o","r" >>,
    v1dot2 |-> << "v","1",".","2" >>, dashx |-> << "-","x" >> ]

\* /^[A-Za-z0-9_-]+$/, and with extra = {"."} /^[A-Za-z0-9_.-]+$/
MatchesWord(segment, extra) ==
  /\ segment \in DOMAIN Chars
  /\ \A i \in 1..Len(Chars[segment]) : Chars[segment][i] \in Alnum \cup {"_", "-"} \cup extra

\* Paths, by their segments: /metrics, /dockerapi, /dockerapi/help, ...
Paths ==
  { << "metrics" >>,
    << "dockerapi" >>, << "dockerapi", "help" >>, << "dockerapi", "healthz" >>,
    << "dockerapi", "tailscale", "status" >>, << "dockerapi", "tailscale", "ping" >>,
    << "dockerapi", "nginx", "test" >>, << "dockerapi", "nginx", "reload" >>,
    << "dockerapi", "nginx", "logs", "access" >>, << "dockerapi", "nginx", "logs", "debug" >>,
    << "dockerapi", "system", "ps" >>, << "dockerapi", "system", "prune" >>,
    << "dockerapi", "system", "raw" >>, << "dockerapi", "system", "df" >>,
    << "dockerapi", "system", "v1dot2" >>, << "dockerapi", "system", "constructor" >>,
    << "dockerapi", "web", "status" >>, << "dockerapi", "web", "logs" >>,
    << "dockerapi", "web", "restart" >>, << "dockerapi", "web", "kill" >>,
    << "dockerapi", "web", "exec" >>, << "dockerapi", "web", "rename" >>,
    << "dockerapi", "web", "update" >>, << "dockerapi", "web", "raw" >>,
    << "dockerapi", "web", "attach" >>, << "dockerapi", "web", "constructor" >>,
    << "dockerapi", "web", "logs", "access" >>,
    << "dockerapi", "dashx", "status" >> }

\* Queries: what urlObj.searchParams has for the parameters the routes read.
EmptyQuery ==
  [ arg |-> <<>>, args |-> Undefined, cmd |-> Undefined, command |-> Undefined,
    to |-> Undefined, scope |-> Undefined, target |-> Undefined,
    format |-> Undefined, shell |-> Undefined, count |-> Undefined,
    tail |-> Undefined, since |-> Undefined, timestamps |-> Undefined ]

Queries ==
  { EmptyQuery,
    [ arg |-> << Foo >>, args |-> Undefined, cmd |-> Ls, command |-> Undefined,
      to |-> WebContainer, scope |-> << "i","m","a","g","e","s" >>, target |-> Foo,
      format |-> << "j","s","o","n" >>, shell |-> << "b","a","s","h" >>, count |-> << "2" >>,
      tail |-> << "5","0" >>, since |-> << "1","h" >>, timestamps |-> << "1" >> ],
    [ arg |-> <<>>, args |-> Undefined, cmd |-> Blank, command |-> Undefined,
      to |-> << "-","x" >>, scope |-> << "e","v","e","r","y" >>, target |-> Blank,
      format |-> Undefined, shell |-> << "f","i","s","h" >>, count |-> << "9","9" >>,
      tail |-> << "0" >>, since |-> Undefined, timestamps |-> << "0" >> ] }

Requests == [ method : Methods, path : Paths, urlObj : Queries ]

\* The body-size cap and the size of a chunk of the body, in characters (the
\* cap is config.requestBodyLimitBytes, scaled to the sample bodies).
requestBodyLimitBytes == 16

ChunkSize == 8

RequestBodies ==
  { [text |-> <<>>, json |-> NoJson],
    [text |-> LsLa, json |-> NoJson],
    [text |-> LsLa \o Blank \o LsLa \o Blank \o LsLa, json |-> NoJson],
    [text |-> << "{","\"","a","r","g","s","\"",":","[","\"","b","a","r","\"","]","}" >>,
     json |-> Json(<< Bar >>, Undefined, Undefined)] }

\* body.json && body.json[name]
JsonField(body, name) ==
  IF body.json.isObject /\ name \in DOMAIN body.json THEN body.json[name] ELSE Undefined

\* Policies the service may have been started with.
RouterConfigs ==
  { DefaultConfig,
    [DefaultConfig EXCEPT !.enableDangerousCommands = FALSE],
    [DefaultConfig EXCEPT !.enableSafeCommands = FALSE],
    [DefaultConfig EXCEPT !.blockedCommands = {"container.status", "nginx.reload", "system.raw"}],
    [DefaultConfig EXCEPT !.safeCommandsPolicy = [allowAll |-> FALSE, set |-> {"help", "nginx.test"}]] }

\* A route: the operation's policy key, the methods it accepts, the client
\* method it calls with which path segment, and whether it reads the body.
Route(key, methods, op, segment, readsBody) ==
  [ kind |-> "operation", key |-> key, methods |-> methods, op |-> op,
    segment |-> segment, readsBody |-> readsBody ]

NoRoute(kind, text) == [ kind |-> kind, text |-> text ]

\* Object.prototype's properties whose names the route patterns let through:
\* safeMap[name] and safeReadonlyActions[name] have them, with no key and no
\* methods.
ObjectPrototype == { "constructor" }

safeMap ==
  [ ps |-> "system.ps", containers |-> "system.ps", images |-> "system.images",
    networks |-> "system.networks", volumes |-> "system.volumes",
    info |-> "system.info", version |-> "system.version" ]

dangerousMap == [ prune |-> "system.prune", raw |-> "system.raw" ]

safeReadonlyActions ==
  [ status |-> "container.status", logs |-> "container.logs",
    inspect |-> "container.inspect", top |-> "container.top",
    stats |-> "container.stats" ]

safeMutateActions ==
  [ start |-> "container.start", stop |-> "container.stop",
    restart |-> "container.restart", pause |-> "container.pause",
    unpause |-> "container.unpause" ]

dangerousActions == [ kill |-> "container.kill", rm |-> "container.rm" ]

nginxLogKeys ==
  [ access |-> "nginx.logs.access", error |-> "nginx.logs.error",
    shadow |-> "nginx.logs.shadow" ]

handleSystemRoute(commandName) ==
  IF commandName \in DOMAIN safeMap
    THEN Route(safeMap[commandName], {"GET"}, "systemCommand", commandName, FALSE)
  ELSE IF commandName \in ObjectPrototype
    THEN Route("undefined", {"GET"}, "none", commandName, FALSE)
  ELSE IF commandName \in DOMAIN dangerousMap
    THEN Route(dangerousMap[commandName], {"POST"},
               IF commandName = "raw" THEN "systemRaw" ELSE "systemPrune",
               commandName, commandName = "raw")
  ELSE NoRoute("unsupported", "unsupported system command")

handleContainerRoute(containerName, actionName) ==
  IF actionName \in DOMAIN safeReadonlyActions
    THEN Route(safeReadonlyActions[actionName], {"GET"},
               IF actionName = "status" THEN "containerStatus"
               ELSE IF actionName = "logs" THEN "containerLogs" ELSE "containerRead",
               containerName, FALSE)
  ELSE IF actionName \in ObjectPrototype
    THEN Route("undefined", {}, "none", containerName, FALSE)
  ELSE IF actionName \in DOMAIN safeMutateActions
    THEN Route(safeMutateActions[actionName], {"POST"}, "containerMutate",
               containerName, FALSE)
  ELSE IF actionName \in DOMAIN dangerousActions
    THEN Route(dangerousActions[actionName], {"POST"}, "containerMutate",
               containerName, FALSE)
  ELSE IF actionName = "exec"
    THEN Route("container.exec", {"POST"}, "containerExec", containerName, TRUE)
  ELSE IF actionName = "rename"
    THEN Route("container.rename", {"POST"}, "containerRename", containerName, TRUE)
  ELSE IF actionName = "update"
    THEN Route("container.update", {"POST"}, "containerUpdate", containerName, TRUE)
  ELSE IF actionName = "raw"
    THEN Route("container.raw", {"POST"}, "containerRaw", containerName, TRUE)
  ELSE NoRoute("unsupported", "unsupported container action")

\* requestHandler, 569-749: the route of a path, in the order the handler
\* tries them.
Dispatch(path) ==
  LET rest == Tail(path)
  IN IF Head(path) # "dockerapi" THEN NoRoute("outside", "not found")
     ELSE IF rest = <<>> \/ rest = << "help" >>
       THEN Route("help", {"GET"}, "help", "", FALSE)
     ELSE IF rest = << "healthz" >> THEN Route("healthz", {"GET"}, "healthz", "", FALSE)
     ELSE IF rest = << "tailscale", "status" >>
       THEN Route("tailscale.status", {"GET"}, "tailscaleStatus", "", FALSE)
     ELSE IF rest = << "tailscale", "ping" >>
       THEN Route("tailscale.ping", {"POST"}, "tailscalePing", "", TRUE)
     ELSE IF rest = << "tailscale", "ip" >>
       THEN Route("tailscale.ip", {"GET"}, "tailscaleIp", "", FALSE)
     ELSE IF rest = << "nginx", "test" >>
       THEN Route("nginx.test", {"GET"}, "nginxTest", "", FALSE)
     ELSE IF rest = << "nginx", "reload" >>
       THEN Route("nginx.reload", {"POST"}, "nginxReload", "", FALSE)
     ELSE IF rest = << "nginx", "version" >>
       THEN Route("nginx.version", {"GET"}, "nginxVersion", "", FALSE)
     ELSE IF Len(rest) = 3 /\ rest[1] = "nginx" /\ rest[2] = "logs"
               /\ MatchesWord(rest[3], {})
       THEN IF rest[3] \in DOMAIN nginxLogKeys
              THEN Route(nginxLogKeys[rest[3]], {"GET"}, "nginxLogs", rest[3], FALSE)
              ELSE [ kind |-> "logtype", text |-> "unsupported nginx log type",
                     methods |-> {"GET"} ]
     ELSE IF Len(rest) = 2 /\ rest[1] = "system" /\ MatchesWord(rest[2], {})
       THEN handleSystemRoute(rest[2])
     ELSE IF Len(rest) = 2 /\ MatchesWord(rest[1], {"."}) /\ MatchesWord(rest[2], {"."})
       THEN handleContainerRoute(rest[1], rest[2])
     ELSE NoRoute("notfound", "dockerapi route not found")

\* requestHandler, 630-631: the sample formats are lower-case.
AsJson(urlObj) == normalizeValue(urlObj.format) = << "j","s","o","n" >>

\* The client method a route calls, as the handler calls it.
Plan(route, urlObj, body) ==
  LET unit == Chars[route.segment]
  IN CASE route.op = "tailscaleStatus" -> tailscaleStatus(AsJson(urlObj))
       [] route.op = "tailscaleIp"     -> tailscaleIp
       [] route.op = "tailscalePing"   ->
            tailscalePing(OrElse(normalizeValue(urlObj.target),
                                 OrElse(normalizeValue(JsonField(body, "target")),
                                        normalizeValue(body.text))),
                          OrElse(normalizeValue(urlObj.count),
                                 normalizeValue(JsonField(body, "count"))))
       [] route.op = "nginxTest"       -> nginxTest
       [] route.op = "nginxReload"     -> nginxReload
       [] route.op = "nginxVersion"    -> nginxVersion
       [] route.op = "nginxLogs"       ->
            nginxLogs(unit, parsePositiveInt(urlObj.tail, config.defaultLogTail,
                                             1, config.maxLogLines))
       [] route.op = "systemCommand"   ->
            systemCommand(IF route.segment = "containers" THEN "ps" ELSE route.segment)
       [] route.op = "systemPrune"     -> systemPrune(urlObj.scope)
       [] route.op = "systemRaw"       -> systemRaw(collectArgs(urlObj, body))
       [] route.op = "containerStatus" -> containerStatus(unit)
       [] route.op = "containerLogs"   ->
            containerLogs(unit, [tail |-> urlObj.tail, since |-> urlObj.since,
                                 timestamps |-> urlObj.timestamps])
       [] route.op = "containerRead"   -> containerRead(unit, route.key)
       [] route.op = "containerMutate" ->
            containerMutate(unit, CHOOSE commandName \in DOMAIN safeMutateActions
                                                       \cup DOMAIN dangerousActions :
                                    (safeMutateActions @@ dangerousActions)[commandName]
                                      = route.key)
       [] route.op = "containerExec"   ->
            containerExec(unit, OrElse(normalizeValue(urlObj.shell), config.execShell),
                          collectCommandText(urlObj, body))
       [] route.op = "containerRename" ->
            containerRename(unit, OrElse(normalizeValue(urlObj.to),
                                         normalizeValue(JsonField(body, "to"))))
       [] route.op = "containerUpdate" -> containerUpdate(unit, collectArgs(urlObj, body))
       [] route.op = "containerRaw"    -> containerRaw(unit, collectArgs(urlObj, body))

NoBody == [text |-> <<>>, json |-> NoJson]

ensureMethod_AcceptsAny(method, methods) == TRUE

\* ensureMethod, 240-247
ensureMethod(method, methods) == method \in methods

requirePermission_PermitsAll(commandKey) == TRUE

\* requirePermission, 249-255
requirePermission(commandKey) == isCommandAllowed(commandKey)

\* respondText / respondJson: the status, what the body says, and the
\* operation or the methods it names.
Response(status, text, key, allow) ==
  [ status |-> status, text |-> text, key |-> key, allow |-> allow, health |-> <<>> ]

HealthResponse_HidesFailures(count) ==
  [ Response(200, "healthz", "", {}) EXCEPT
      !.health = << [ requestCount |-> count, inProgress |-> sync.inProgress,
                      lastRunAt |-> sync.lastRunAt, lastSuccessAt |-> sync.lastSuccessAt,
                      totalRuns |-> sync.totalRuns, totalFailures |-> 0,
                      lastError |-> "" ] >> ]

\* requestHandler, 597-621: the health endpoint prints the run state of the
\* sync, and the count of requests, this one included.
HealthResponse(count) ==
  [ Response(200, "healthz", "", {}) EXCEPT
      !.health = << [ requestCount |-> count, inProgress |-> sync.inProgress,
                      lastRunAt |-> sync.lastRunAt, lastSuccessAt |-> sync.lastSuccessAt,
                      totalRuns |-> sync.totalRuns, totalFailures |-> sync.totalFailures,
                      lastError |-> sync.lastError ] >> ]

Responds(rq, response) ==
  [rq EXCEPT !.pc = "responded", !.response = response]

Rendered_AlwaysOk(rq, tk, parses) ==
  IF tk.outcome = "threw" THEN Response(500, "error", "", {})
  ELSE Response(200, "command result", "", {})

\* sendCommandResult, 257-263, and the catch of requestHandler with
\* handleCommandError, 265-276; for the status route with format=json,
\* 633-642, where `parses` tells whether the command's output is JSON.
Rendered(rq, tk, parses) ==
  CASE tk.outcome = "ok" ->
         IF rq.route.op = "tailscaleStatus" /\ AsJson(rq.urlObj)
           THEN IF parses THEN Response(200, "json", "", {})
                          ELSE Response(500, "command result", "", {})
           ELSE Response(200, "command result", "", {})
    [] tk.outcome = "nonzero" -> Response(500, "command result", "", {})
    [] tk.outcome = "failed"  -> Response(500, "command result", "", {})
    [] tk.outcome = "threw"   -> Response(500, "error", "", {})

\* The handler's client call has run to its next await, or to its end: then
\* the handler responds.
Settle(rq, result, parses) ==
  /\ cache' = result.cache
  /\ lastWrite' = result.hist
  /\ IF result.task.pc = "done"
       THEN /\ tasks' = [tasks EXCEPT !["http"] = IdleTask]
            /\ req' = [Responds(rq, Rendered(rq, result.task, parses))
                         EXCEPT !.calls = result.task.calls,
                                !.outcome = result.task.outcome,
                                !.error = result.task.error]
       ELSE /\ tasks' = [tasks EXCEPT !["http"] = result.task]
            /\ req' = [rq EXCEPT !.pc = "exec", !.calls = result.task.calls]

\* Step (3) of a route: execute.
Execute(rq, body) ==
  LET ran == [rq EXCEPT !.checks = Append(@, "execute")]
  IN IF rq.route.op = "help"
       THEN /\ req' = Responds(ran, Response(200, "help", "", {}))
            /\ UNCHANGED clientVars
     ELSE IF rq.route.op = "healthz"
       THEN /\ req' = Responds(ran, HealthResponse(requestCount + 1))
            /\ UNCHANGED clientVars
       ELSE Settle(ran, Invoke(rq.route.op, Plan(rq.route, rq.urlObj, body),
                               cache, lastWrite), TRUE)

\* requestHandler, 547-753, up to its first await.
requestHandler(r) ==
  /\ req.pc \in {"none", "responded"}
  /\ requestCount < MaxRequests
  /\ requestCount' = requestCount + 1
  /\ LET route == Dispatch(r.path)
         rq    == [ pc |-> "handling", method |-> r.method, path |-> r.path,
                    urlObj |-> r.urlObj, route |-> route, checks |-> <<>>,
                    calls |-> <<>>, response |-> Response(0, "", "", {}),
                    socket |-> "open", body |-> NoBody, received |-> 0,
                    outcome |-> "none", error |-> "none",
                    tooLarge |-> FALSE ]
         m     == [rq EXCEPT !.checks = << "method" >>]
         mp    == [rq EXCEPT !.checks = << "method", "policy" >>]
     IN IF route.kind \in {"outside", "notfound", "unsupported"}
          THEN /\ req' = Responds(rq, Response(404, route.text, "", {}))
               /\ UNCHANGED clientVars
        ELSE IF ~ensureMethod(r.method, route.methods)
          THEN /\ req' = Responds(m, Response(405, "method not allowed", "", route.methods))
               /\ UNCHANGED clientVars
        ELSE IF route.kind = "logtype"
          THEN /\ req' = Responds(m, Response(404, route.text, "", {}))
               /\ UNCHANGED clientVars
        ELSE IF ~requirePermission(route.key)
          THEN /\ req' = Responds(mp, Response(403, "command is blocked by policy",
                                               route.key, {}))
               /\ UNCHANGED clientVars
        ELSE IF route.readsBody
          THEN /\ req' = [mp EXCEPT !.pc = "body"]
               /\ UNCHANGED clientVars
        ELSE Execute(mp, NoBody)
  /\ UNCHANGED <<config, child, probe, now, syncVars>>

\* The next chunk of a body of which `received` characters have arrived.
NextChunk(body, received) ==
  SubSeq(body.text, received + 1,
         IF received + ChunkSize < Len(body.text) THEN received + ChunkSize
                                                  ELSE Len(body.text))

\* parseRequestBody, 114-122: a chunk of the body arrives.  Past the limit the
\* promise is rejected and req.destroy() destroys the request's socket; then
\* the handler's catch responds (handleCommandError), to that socket.
BodyData(body) ==
  /\ req.pc = "body"
  /\ IF req.received = 0 THEN body.text # <<>> ELSE body = req.body
  /\ req.received < Len(body.text)
  /\ LET total == req.received + Len(NextChunk(body, req.received))
     IN IF total > requestBodyLimitBytes
          THEN req' = Responds([req EXCEPT !.body = body, !.tooLarge = TRUE,
                                           !.socket = "destroyed"],
                               Response(500, "error", "", {}))
          ELSE req' = [req EXCEPT !.body = body, !.received = total]
  /\ UNCHANGED <<config, child, probe, now, clientVars, requestCount, syncVars>>

\* parseRequestBody, 123-134: the body has ended; the handler collects its
\* arguments from all of it and calls the client.
BodyRead ==
  /\ req.pc = "body"
  /\ req.received = Len(req.body.text)
  /\ Execute(req, req.body)
  /\ UNCHANGED <<config, child, probe, now, requestCount, syncVars>>

\* parseRequestBody, 135-137: the request fails while its body is read.
BodyRejected ==
  /\ req.pc = "body"
  /\ req' = Responds(req, Response(500, "error", "", {}))
  /\ UNCHANGED <<config, child, probe, now, clientVars, requestCount, syncVars>>

\* The process the handler's client call waits for answers.
HttpAnswered(ans, parses) ==
  /\ req.pc = "exec"
  /\ Waiting(tasks["http"])
  /\ Settle(req, ProcessAnswers(tasks["http"], cache, lastWrite, ans), parses)
  /\ UNCHANGED <<config, child, probe, now, requestCount, syncVars>>

\* Whether the output parses matters for the status printed as JSON.
ParsesFor(ans) ==
  IF /\ req.pc = "exec" /\ req.route.op = "tailscaleStatus" /\ AsJson(req.urlObj)
     /\ tasks["http"].pc = "run" /\ ans.code = "exit0"
    THEN BOOLEAN ELSE { TRUE }

InitRouter ==
  /\ config \in RouterConfigs
  /\ Started

NextRouter ==
  \/ \E r \in Requests : requestHandler(r)
  \/ \E body \in RequestBodies : BodyData(body)
  \/ BodyRead
  \/ BodyRejected
  \/ \E ans \in AnswersFor(tasks["http"]) : \E parses \in ParsesFor(ans) :
       HttpAnswered(ans, parses)

SpecRouter == InitRouter /\ [][NextRouter]_vars

(***************************************************************************)
(* The shadow reconciler (tailscale-shadow-sync.js, 1-225) and its driver  *)
(* (index.js: runScheduledSync, the timers of server.listen).              *)
(*                                                                         *)
(* The shadow directory is a function from file names to contents; all     *)
(* its entries are regular files and its file operations succeed.  The     *)
(* content of a rendered file is determined by its address and port.       *)
(***************************************************************************)
MaxTriggers == 2

tailscaleSyncEnabled == TRUE     \* DOCKER_MANAGER_TAILSCALE_SYNC_ENABLED's default

shadowPort == 3000

\* text.split(".")
RECURSIVE SplitDot(_, _, _)
SplitDot(text, i, current) ==
  IF i > Len(text) THEN << current >>
  ELSE IF text[i] = "." THEN << current >> \o SplitDot(text, i + 1, <<>>)
  ELSE SplitDot(text, i + 1, Append(current, text[i]))

Octets(text) == LET parts == SplitDot(text, 1, <<>>)
                IN [i \in 1..Len(parts) |-> ParseDigits(parts[i])]

\* isIpv4, 10-17: /^\d{1,3}(\.\d{1,3}){3}$/ and every octet at most 255
isIpv4(value) ==
  LET text  == normalizeValue(value)
      parts == SplitDot(text, 1, <<>>)
  IN /\ Len(parts) = 4
     /\ \A i \in 1..4 : /\ Len(parts[i]) \in 1..3
                        /\ \A j \in 1..Len(parts[i]) : parts[i][j] \in DOMAIN Digit
     /\ \A i \in 1..4 : ParseDigits(parts[i]) <= 255

DotConf == << ".","c","o","n","f" >>

\* entry.name.endsWith(".conf")
EndsWithConf(name) ==
  Len(name) >= 5 /\ SubSeq(name, Len(name) - 4, Len(name)) = DotConf

\* entry.name.replace(/\.conf$/i, "") of a name that ends with .conf
Stem(name) == SubSeq(name, 1, Len(name) - 5)

\* The addresses that have a file: what both functions below keep of readdir.
ShadowIps(dir) ==
  { Stem(name) : name \in { n \in DOMAIN dir : EndsWithConf(n) /\ isIpv4(Stem(n)) } }

readShadowFiles(dir) == [ip \in ShadowIps(dir) |-> dir[ip \o DotConf]]

renderShadowContent(ip, port) == [server |-> ip, port |-> port]

writeShadowState_LeavesOthers(dir, desiredState) ==
  LET written == { ip \o DotConf : ip \in DOMAIN desiredState }
  IN [name \in DOMAIN dir \cup written |->
        IF name \in written THEN desiredState[Stem(name)] ELSE dir[name]]

\* writeShadowState, 40-67: every desired file is written (to a .tmp file that
\* is renamed), then the files of addresses that are not desired are removed.
writeShadowState(dir, desiredState) ==
  LET written == { ip \o DotConf : ip \in DOMAIN desiredState }
      removed == { ip \o DotConf : ip \in ShadowIps(dir) \ DOMAIN desiredState }
  IN [name \in (DOMAIN dir \ removed) \cup written |->
        IF name \in written THEN desiredState[Stem(name)] ELSE dir[name]]

\* A node of the status payload: the fields the code reads under their first
\* spelling.  Online is "true", "false" or "none" (absent).
Node(id, self, online, curAddr, ips) ==
  [ID |-> id, Self |-> self, Online |-> online, CurAddr |-> curAddr,
   TailscaleIPs |-> ips]

isPeerActive_AnyCurAddr(peer) ==
  peer.Online = "true" \/ normalizeValue(peer.CurAddr) # <<>>

\* isPeerActive, 88-96: Online stands for the explicit flags (one is true, all
\* are false, none is a boolean).
isPeerActive(peer) ==
  IF peer.Online # "none" THEN peer.Online = "true"
  ELSE normalizeValue(peer.CurAddr) # <<>>

RECURSIVE AddNew(_, _)
AddNew(values, items) ==
  IF items = <<>> THEN values
  ELSE AddNew(IF \E i \in 1..Len(values) : values[i] = Head(items)
                THEN values ELSE Append(values, Head(items)),
              Tail(items))

\* collectNodeIps, 98-120
collectNodeIps(node) ==
  AddNew(<<>>, SelectSeq(NormalizedValues(node.TailscaleIPs), isIpv4))

\* left.localeCompare(right, undefined, {numeric: true}) < 0 on addresses
RECURSIVE Before(_, _)
Before(left, right) ==
  IF left = <<>> \/ right = <<>> THEN left = <<>> /\ right # <<>>
  ELSE IF Head(left) # Head(right) THEN Head(left) < Head(right)
  ELSE Before(Tail(left), Tail(right))

RECURSIVE SortIps(_)
SortIps(ips) ==
  IF ips = <<>> THEN <<>>
  ELSE LET first == CHOOSE i \in 1..Len(ips) :
                      \A j \in 1..Len(ips) : ~Before(Octets(ips[j]), Octets(ips[i]))
       IN << ips[first] >>
            \o SortIps(SubSeq(ips, 1, first - 1) \o SubSeq(ips, first + 1, Len(ips)))

RECURSIVE SelectPeerIps(_, _, _)
SelectPeerIps(peers, self, selectedIps) ==
  IF peers = <<>> THEN selectedIps
  ELSE LET peer   == Head(peers)
           selfId == normalizeValue(self.ID)
           peerId == normalizeValue(peer.ID)
           skip   == \/ peer.Self
                     \/ (selfId # <<>> /\ peerId # <<>> /\ selfId = peerId)
                     \/ ~isPeerActive(peer)
           selfIps == collectNodeIps(self)
           ips    == SelectSeq(collectNodeIps(peer),
                               LAMBDA ip : \A i \in 1..Len(selfIps) : selfIps[i] # ip)
       IN SelectPeerIps(Tail(peers), self,
                        IF skip THEN selectedIps ELSE AddNew(selectedIps, ips))

\* extractActivePeerIps, 122-156
extractActivePeerIps(statusPayload) ==
  SortIps(SelectPeerIps(statusPayload.Peer, statusPayload.Self, <<>>))

\* Sample addresses, payloads and directories.
Ip1 == << "1",".","1",".","1",".","1" >>
Ip2 == << "1",".","1",".","1",".","2" >>
Ip3 == << "1",".","1",".","1",".","3" >>

SelfNode == Node(<< "a" >>, FALSE, "true", <<>>, << Ip1 >>)

Payloads ==
  { [valid |-> FALSE, Self |-> SelfNode, Peer |-> <<>>],
    [valid |-> TRUE,  Self |-> SelfNode, Peer |-> <<>>],
    [valid |-> TRUE,  Self |-> SelfNode,
     Peer  |-> << Node(<< "b" >>, FALSE, "true", <<>>, << Ip2 >>) >>],
    [valid |-> TRUE,  Self |-> SelfNode,
     Peer  |-> << Node(<< "c" >>, FALSE, "none", Ip3, << Ip3, Ip1 >>),
                  Node(<< "b" >>, FALSE, "true", <<>>, << Ip2 >>),
                  Node(<< "d" >>, FALSE, "false", Ip1, << << "1",".","1",".","1",".","4" >> >>) >>] }

NoPayload == [valid |-> FALSE, Self |-> SelfNode, Peer |-> <<>>]

NotesConf == << "n","o","t","e","s",".","c","o","n","f" >>

Directories ==
  { <<>>,
    [name \in {Ip2 \o DotConf} |-> renderShadowContent(Ip2, shadowPort)],
    [name \in {Ip2 \o DotConf, NotesConf} |->
       IF name = NotesConf THEN renderShadowContent(<<>>, 0)
       ELSE renderShadowContent(Ip2, 8080)],
    [name \in {Ip2 \o DotConf, Ip3 \o DotConf} |->
       renderShadowContent(Stem(name), IF Stem(name) = Ip3 THEN 8080 ELSE shadowPort)] }

\* A cycle: where runTailscaleShadowSync stands, what it read and the error
\* it will rethrow; and, as history, the directory when the cycle began and
\* as the cycle wrote it.
\* A step of a cycle, as history: a command the cycle awaits, with the error
\* it threw, or the files writeShadowState writes and then those it removes.
CycleStep(op, files) == [op |-> op, files |-> files, error |-> "pending"]

NewCycle(source, dir) ==
  [ pc |-> "status", source |-> source, previousState |-> <<>>, result |-> NoResult,
    error |-> "none", outcome |-> "none", wrote |-> FALSE,
    dirAtStart |-> dir, dirWritten |-> dir, steps |-> << CycleStep("status", {}) >>,
    ended |-> 0, last |-> "none" ]

\* writeShadowState, 54-66: the loop that writes, then the loop that removes
ShadowSteps(dir, desiredState) ==
  << [op |-> "write", files |-> DOMAIN desiredState, error |-> "none"],
     [op |-> "rm", files |-> ShadowIps(dir) \ DOMAIN desiredState, error |-> "none"] >>

\* The command the cycle awaited has returned or thrown.
Returned(cy, tk) ==
  [cy EXCEPT !.steps[Len(cy.steps)].error = IF tk.outcome = "ok" THEN "none" ELSE tk.error]

Active(s) == cycles[s].pc # "idle"

execReload == << Step(NginxContainer, "nginx -s reload", FALSE) >>

\* Array.from(previousState.keys()): the order is readdir's and is sorted away.
RECURSIVE SetToSeq(_)
SetToSeq(set) ==
  IF set = {} THEN <<>>
  ELSE LET item == CHOOSE x \in set : TRUE
       IN << item >> \o SetToSeq(set \ {item})

ScanResult_ChangedWhenAdded(statusPayload, dir) ==
  LET nextIps       == extractActivePeerIps(statusPayload)
      previousState == readShadowFiles(dir)
      previousIps   == SortIps(SetToSeq(DOMAIN previousState))
      inNext(ip)    == \E i \in 1..Len(nextIps) : nextIps[i] = ip
      added         == SelectSeq(nextIps, LAMBDA ip : ip \notin DOMAIN previousState)
      removed       == SelectSeq(previousIps, LAMBDA ip : ~inNext(ip))
  IN [ null |-> FALSE, changed |-> added # <<>>,
       previousIps |-> previousIps, nextIps |-> nextIps,
       added |-> added, removed |-> removed ]

ScanResult_ComparesContent(statusPayload, dir) ==
  LET nextIps       == extractActivePeerIps(statusPayload)
      previousState == readShadowFiles(dir)
      previousIps   == SortIps(SetToSeq(DOMAIN previousState))
      inNext(ip)    == \E i \in 1..Len(nextIps) : nextIps[i] = ip
      added         == SelectSeq(nextIps, LAMBDA ip : ip \notin DOMAIN previousState)
      removed       == SelectSeq(previousIps, LAMBDA ip : ~inNext(ip))
      stale         == \E ip \in DOMAIN previousState :
                         previousState[ip] # renderShadowContent(ip, shadowPort)
  IN [ null |-> FALSE, changed |-> added # <<>> \/ removed # <<>> \/ stale,
       previousIps |-> previousIps, nextIps |-> nextIps,
       added |-> added, removed |-> removed ]

\* runTailscaleShadowSync, 169-221, once the status is parsed.
ScanResult(statusPayload, dir) ==
  LET nextIps       == extractActivePeerIps(statusPayload)
      previousState == readShadowFiles(dir)
      previousIps   == SortIps(SetToSeq(DOMAIN previousState))
      inNext(ip)    == \E i \in 1..Len(nextIps) : nextIps[i] = ip
      added         == SelectSeq(nextIps, LAMBDA ip : ip \notin DOMAIN previousState)
      removed       == SelectSeq(previousIps, LAMBDA ip : ~inNext(ip))
  IN [ null |-> FALSE, changed |-> added # <<>> \/ removed # <<>>,
       previousIps |-> previousIps, nextIps |-> nextIps,
       added |-> added, removed |-> removed ]

NextState_KeepsPort(nextIps) ==
  [ip \in { nextIps[i] : i \in 1..Len(nextIps) } |->
     IF ip \in ShadowIps(shadowDir) THEN readShadowFiles(shadowDir)[ip]
     ELSE renderShadowContent(ip, shadowPort)]

\* runTailscaleShadowSync, 170-173: the desired state, every address rendered
NextState(nextIps) ==
  [ip \in { nextIps[i] : i \in 1..Len(nextIps) } |-> renderShadowContent(ip, shadowPort)]

runScheduledSyncSkips_Never == FALSE

\* runScheduledSync, 321-324: the guard against a cycle that is running
runScheduledSyncSkips == sync.inProgress

SkippedSync_CountsRun(state) == [state EXCEPT !.totalRuns = @ + 1]

\* runScheduledSync, 321-324: what the skipped trigger leaves of the run state
SkippedSync(state) == state

Finish_NoFinally(s, cy, outcome, error) ==
  /\ cycles' = [cycles EXCEPT ![s] = [cy EXCEPT !.pc = "idle", !.outcome = outcome,
                                                !.error = error, !.ended = @ + 1,
                                                !.last = outcome]]
  /\ tasks' = [tasks EXCEPT ![s] = IdleTask]
  /\ sync' = IF outcome = "ok"
               THEN [sync EXCEPT !.lastResult = cy.result, !.lastSuccessAt = now,
                                 !.lastError = "", !.inProgress = FALSE]
               ELSE [sync EXCEPT !.totalFailures = @ + 1, !.lastError = error]

Finish_FailureCountsRun(s, cy, outcome, error) ==
  /\ cycles' = [cycles EXCEPT ![s] = [cy EXCEPT !.pc = "idle", !.outcome = outcome,
                                                !.error = error, !.ended = @ + 1,
                                                !.last = outcome]]
  /\ tasks' = [tasks EXCEPT ![s] = IdleTask]
  /\ sync' = IF outcome = "ok"
               THEN [sync EXCEPT !.lastResult = cy.result, !.lastSuccessAt = now,
                                 !.lastError = "", !.inProgress = FALSE]
               ELSE [sync EXCEPT !.totalFailures = @ + 1, !.totalRuns = @ + 1,
                                 !.lastError = error, !.inProgress = FALSE]

Finish_FailureKeepsLastError(s, cy, outcome, error) ==
  /\ cycles' = [cycles EXCEPT ![s] = [cy EXCEPT !.pc = "idle", !.outcome = outcome,
                                                !.error = error, !.ended = @ + 1,
                                                !.last = outcome]]
  /\ tasks' = [tasks EXCEPT ![s] = IdleTask]
  /\ sync' = IF outcome = "ok"
               THEN [sync EXCEPT !.lastResult = cy.result, !.lastSuccessAt = now,
                                 !.lastError = "", !.inProgress = FALSE]
               ELSE [sync EXCEPT !.totalFailures = @ + 1, !.inProgress = FALSE]

\* runScheduledSync, 335-344: the cycle returned or threw.
Finish(s, cy, outcome, error) ==
  /\ cycles' = [cycles EXCEPT ![s] = [cy EXCEPT !.pc = "idle", !.outcome = outcome,
                                                !.error = error, !.ended = @ + 1,
                                                !.last = outcome]]
  /\ tasks' = [tasks EXCEPT ![s] = IdleTask]
  /\ sync' = IF outcome = "ok"
               THEN [sync EXCEPT !.lastResult = cy.result, !.lastSuccessAt = now,
                                 !.lastError = "", !.inProgress = FALSE]
               ELSE [sync EXCEPT !.totalFailures = @ + 1, !.lastError = error,
                                 !.inProgress = FALSE]

\* The cycle awaits a method of the client.  The containers' configured names
\* are valid, so the method reaches an await.
Calls(s, cy, pc, op, plan, c, h) ==
  LET started == Invoke(op, plan, c, h)
  IN /\ cycles' = [cycles EXCEPT ![s] =
                       [cy EXCEPT !.pc = pc,
                                  !.steps = Append(@, CycleStep(IF op = "nginxTest"
                                                                  THEN "test" ELSE "reload",
                                                                {}))]]
     /\ tasks' = [tasks EXCEPT ![s] = started.task]
     /\ cache' = started.cache
     /\ lastWrite' = started.hist
     /\ UNCHANGED sync

\* applyStateWithRollback, 76-85: the catch of the first test and reload
Rollback(s, cy, error, c, h) ==
  /\ shadowDir' = writeShadowState(shadowDir, cy.previousState)
  /\ Calls(s, [cy EXCEPT !.error = error,
                         !.steps = @ \o ShadowSteps(shadowDir, cy.previousState)],
           "rollbackTest", "nginxTest", nginxTest, c, h)

Rethrown_RollbackError(cy, rollbackError) ==
  IF rollbackError = "none" THEN cy.error ELSE rollbackError

\* applyStateWithRollback, 80-85: the rollback's error is logged, the first
\* error is thrown.
Rethrown(cy, rollbackError) == cy.error

\* A method the cycle awaited has returned (tk.outcome = "ok") or thrown.
CycleContinues(s, cy0, tk, c, h, statusPayload) ==
  LET cy == Returned(cy0, tk) IN
  CASE cy.pc = "status" ->
         IF tk.outcome # "ok" \/ ~statusPayload.valid
           THEN /\ Finish(s, cy, "failed",
                          IF tk.outcome # "ok" THEN tk.error ELSE "invalid json")
                /\ cache' = c /\ lastWrite' = h /\ UNCHANGED shadowDir
           ELSE LET scan == ScanResult(statusPayload, shadowDir)
                    read == [cy EXCEPT !.previousState = readShadowFiles(shadowDir),
                                       !.result = scan]
                    dir  == writeShadowState(shadowDir, NextState(scan.nextIps))
                IN IF ~scan.changed
                     THEN /\ Finish(s, read, "ok", "none")
                          /\ cache' = c /\ lastWrite' = h /\ UNCHANGED shadowDir
                     ELSE /\ shadowDir' = dir
                          /\ Calls(s, [read EXCEPT !.wrote = TRUE, !.dirWritten = dir,
                                         !.steps = @ \o ShadowSteps(shadowDir,
                                                                    NextState(scan.nextIps))],
                                   "test", "nginxTest", nginxTest, c, h)
    [] cy.pc = "test" ->
         IF tk.outcome = "ok"
           THEN /\ Calls(s, cy, "reload", "execInContainer", execReload, c, h)
                /\ UNCHANGED shadowDir
           ELSE Rollback(s, cy, tk.error, c, h)
    [] cy.pc = "reload" ->
         IF tk.outcome = "ok"
           THEN /\ Finish(s, cy, "ok", "none")
                /\ cache' = c /\ lastWrite' = h /\ UNCHANGED shadowDir
           ELSE Rollback(s, cy, tk.error, c, h)
    [] cy.pc = "rollbackTest" ->
         IF tk.outcome = "ok"
           THEN /\ Calls(s, cy, "rollbackReload", "execInContainer", execReload, c, h)
                /\ UNCHANGED shadowDir
           ELSE /\ Finish(s, cy, "failed", Rethrown(cy, tk.error))
                /\ cache' = c /\ lastWrite' = h /\ UNCHANGED shadowDir
    [] cy.pc = "rollbackReload" ->
         /\ Finish(s, cy, "failed",
                   Rethrown(cy, IF tk.outcome = "ok" THEN "none" ELSE tk.error))
         /\ cache' = c /\ lastWrite' = h /\ UNCHANGED shadowDir

\* A timer fires: runScheduledSync(source), 317-330, up to its first await.
\* The startup timer (2 s) fires before the interval (at least 5 s) does.
runScheduledSync(source) ==
  /\ tailscaleSyncEnabled
  /\ IF source = "startup" THEN ~timers.startup
                           ELSE timers.startup /\ timers.fired < MaxTriggers
  /\ LET fired == IF source = "startup" THEN [timers EXCEPT !.startup = TRUE]
                                        ELSE [timers EXCEPT !.fired = @ + 1]
     IN IF runScheduledSyncSkips
          THEN /\ timers' = [fired EXCEPT !.skipped = @ + 1]
               /\ sync' = SkippedSync(sync)
               /\ UNCHANGED <<clientVars, cycles, shadowDir>>
          ELSE /\ \E s \in CycleIds : ~Active(s)
               /\ LET s == CHOOSE id \in CycleIds : ~Active(id)
                      started == Invoke("tailscaleStatus", tailscaleStatus(TRUE), cache, lastWrite)
                  IN /\ cycles' = [cycles EXCEPT ![s] = [NewCycle(source, shadowDir)
                                                     EXCEPT !.ended = cycles[s].ended,
                                                            !.last = cycles[s].last]]
                     /\ tasks' = [tasks EXCEPT ![s] = started.task]
                     /\ cache' = started.cache
                     /\ lastWrite' = started.hist
               /\ sync' = [sync EXCEPT !.inProgress = TRUE, !.lastRunAt = now,
                                       !.totalRuns = @ + 1]
               /\ timers' = fired
               /\ UNCHANGED shadowDir
  /\ UNCHANGED <<config, child, probe, now, httpVars>>

\* The process a cycle's client call waits for answers; the status command
\* prints a payload.
CycleAnswered(s, ans, statusPayload) ==
  /\ Active(s)
  /\ Waiting(tasks[s])
  /\ LET next == ProcessAnswers(tasks[s], cache, lastWrite, ans)
     IN IF next.task.pc # "done"
          THEN /\ tasks' = [tasks EXCEPT ![s] = next.task]
               /\ cache' = next.cache
               /\ lastWrite' = next.hist
               /\ UNCHANGED <<sync, cycles, shadowDir>>
          ELSE CycleContinues(s, cycles[s], next.task, next.cache, next.hist,
                              statusPayload)
  /\ UNCHANGED <<config, child, probe, now, httpVars, timers>>

\* The payloads that make a difference to the cycle's next step.
PayloadsFor(s) ==
  IF cycles[s].pc = "status" /\ tasks[s].pc = "run" THEN Payloads ELSE { NoPayload }

InitSync ==
  /\ config = DefaultConfig
  /\ Loaded
  /\ shadowDir \in Directories

NextSync ==
  \/ \E source \in {"startup", "interval"} : runScheduledSync(source)
  \/ \E s \in CycleIds : \E ans \in AnswersFor(tasks[s]) :
       \E statusPayload \in PayloadsFor(s) : CycleAnswered(s, ans, statusPayload)

SpecSync == InitSync /\ [][NextSync]_vars

\* Every process a cycle waits for answers: it exits, or its timeout fires.
CycleProceeds ==
  \E s \in CycleIds : \E ans \in AnswersFor(tasks[s]) :
    \E statusPayload \in PayloadsFor(s) : CycleAnswered(s, ans, statusPayload)

InitSyncFair ==
  /\ config = DefaultConfig
  /\ Loaded
  /\ shadowDir = [name \in {Ip2 \o DotConf} |-> renderShadowContent(Ip2, shadowPort)]

SpecSyncFair == InitSyncFair /\ [][NextSync]_vars /\ WF_vars(CycleProceeds)

(***************************************************************************)
(* Two callers resolving the same logical name, each once, while the       *)
(* service's container may be replaced between their lookups.  Every       *)
(* spawned process ends or is timed out (runCommand's timeout), so each    *)
(* caller's pending answer arrives.                                        *)
(***************************************************************************)
WebContainer2 == << "p","_","w","e","b","_","2" >>

RaceAnswers ==
  { ans \in [code : {"exit0", "exit1", "reject"}, line : PsLines \cup {WebContainer2}] :
      ans.code = "reject" => ans.line = <<>> }

\* As AnswersFor, over RaceAnswers.
RaceAnswersFor(tk) ==
  IF tk.pc \in {"ps", "psa"}
    THEN { ans \in RaceAnswers : ans.code # "exit1" }
    ELSE { ans \in RaceAnswers : ans.line = <<>> }

RaceCalls(t) == ClientCalls(t, [op |-> "containerStatus", plan |-> containerStatus(WebService)])

RaceAnswered(t) == \E ans \in RaceAnswersFor(tasks[t]) : ClientAnswered(t, ans)

NextRace == \E t \in Clients : RaceCalls(t) \/ RaceAnswered(t)

SpecRace ==
  /\ InitClient
  /\ [][NextRace]_vars
  /\ \A t \in Clients : WF_vars(RaceAnswered(t))

(***************************************************************************)
(* The scan of a cycle on its own: every directory of rendered files and   *)
(* every list of active peers over four addresses, one of them a second    *)
(* spelling of another.                                                    *)
(***************************************************************************)
MaxPeers == 3

A2  == << "1","0",".","0",".","0",".","2" >>
A02 == << "1","0",".","0",".","0",".","0","2" >>
A5  == << "1","0",".","0",".","0",".","5" >>
A10 == << "1","0",".","0",".","0",".","1","0" >>

DiffIps == { A2, A02, A5, A10 }

\* The lists of at most MaxPeers different addresses.
PeerLists ==
  { ips \in UNION { [1..n -> DiffIps] : n \in 0..MaxPeers } :
      \A i, j \in 1..Len(ips) : i # j => ips[i] # ips[j] }

\* A payload whose peers are online, one address each, in the given order.
PayloadOf(ips) ==
  [ valid |-> TRUE, Self |-> SelfNode,
    Peer  |-> [i \in 1..Len(ips) |-> Node(<< "p" >>, FALSE, "true", <<>>, << ips[i] >>)] ]

DirectoryOf(ips) == [name \in { ip \o DotConf : ip \in ips } |->
                       renderShadowContent(Stem(name), shadowPort)]

\* runTailscaleShadowSync, 167-198, applied to a payload and the directory.
Scan(ips) ==
  /\ probe = NoProbe
  /\ probe' = [ fn |-> "scan", nextIps |-> ips,
                result |-> ScanResult(PayloadOf(ips), shadowDir) ]
  /\ UNCHANGED <<config, child, now, clientVars, httpVars, syncVars>>

InitDiff ==
  /\ config = DefaultConfig
  /\ Loaded
  /\ shadowDir \in { DirectoryOf(ips) : ips \in SUBSET DiffIps }

NextDiff == \E ips \in PeerLists : Scan(ips)

SpecDiff == InitDiff /\ [][NextDiff]_vars

(***************************************************************************)
(* The service as a whole: requests are handled while the cycle of the     *)
(* startup timer runs.                                                     *)
(***************************************************************************)
ServiceRequests ==
  { r \in Requests :
      /\ r.method = "GET" /\ r.urlObj = EmptyQuery
      /\ r.path \in { << "dockerapi", "healthz" >>, << "dockerapi", "nginx", "test" >> } }

NextService ==
  \/ \E r \in ServiceRequests : requestHandler(r)
  \/ \E ans \in AnswersFor(tasks["http"]) : HttpAnswered(ans, TRUE)
  \/ runScheduledSync("startup")
  \/ \E s \in CycleIds : \E ans \in AnswersFor(tasks[s]) :
       \E statusPayload \in PayloadsFor(s) : CycleAnswered(s, ans, statusPayload)

SpecService == InitSync /\ [][NextService]_vars

(***************************************************************************)
(* One call of runCommand (command-runner.js): the child process, the      *)
(* timer of its deadline, and the promise the caller awaits.  The timers   *)
(* of the event loop run before the events of its poll phase, so a timer   *)
(* that is due runs before the close of a process that exited after the    *)
(* timer's deadline.                                                       *)
(***************************************************************************)
MaxChunks == 2

\* options.timeoutMs: none, the resolution's 5000, and a longer one
Timeouts == { 0, 5000, 10000 }

\* The exit code of the child: a number, or null when a signal ended it.
ExitCodes == { "0", "1", "null" }

\* resolve and reject of a promise: the first one settles it; outcomes counts
\* the calls of either.
Settled(r, outcome, code) ==
  IF r.pc = "pending"
    THEN [r EXCEPT !.pc = outcome, !.code = code, !.outcomes = @ + 1]
    ELSE [r EXCEPT !.outcomes = @ + 1]

finish_Unguarded(r, code) ==
  Settled([r EXCEPT !.settled = TRUE,
                    !.timer = IF @ = "armed" THEN "cleared" ELSE @],
          "resolved", code)

\* finish, 23-37
finish(r, code) ==
  IF r.settled THEN r
  ELSE Settled([r EXCEPT !.settled = TRUE,
                         !.timer = IF @ = "armed" THEN "cleared" ELSE @],
               "resolved", code)

\* runCommand, 7-22 and 68-82: the child is spawned and the timer armed.
runCommand(timeoutMs) ==
  /\ child.pc = "none"
  /\ child' = [ pc |-> "pending", timeoutMs |-> timeoutMs, deadline |-> now + timeoutMs,
                settled |-> FALSE,
                timer |-> IF timeoutMs > 0 THEN "armed" ELSE "none",
                proc |-> "running", exit |-> "none", exitedAt |-> -1,
                signals |-> <<>>, stdout |-> 0, code |-> -1, error |-> "none",
                outcomes |-> 0 ]
  /\ UNCHANGED <<config, probe, now, clientVars, httpVars, syncVars>>

\* child.stdout.on("data"), 42-44
ChildData ==
  /\ child.pc # "none"
  /\ child.proc = "running"
  /\ child.stdout < MaxChunks
  /\ child' = [child EXCEPT !.stdout = @ + 1]
  /\ UNCHANGED <<config, probe, now, clientVars, httpVars, syncVars>>

\* The process ends; its events are still to be delivered.
ChildExits(code) ==
  /\ child.pc # "none"
  /\ child.proc = "running"
  /\ child' = [child EXCEPT !.proc = "exited", !.exit = code, !.exitedAt = now]
  /\ UNCHANGED <<config, probe, now, clientVars, httpVars, syncVars>>

\* The timer is due and the process exited after the deadline.
TimerFirst(r) == r.timer = "armed" /\ now >= r.deadline /\ r.exitedAt > r.deadline

\* child.on("close"), 60-66
ChildClose ==
  /\ child.pc # "none"
  /\ child.proc \in {"exited", "failed"}
  /\ ~TimerFirst(child)
  /\ child' = [finish(child, IF child.exit = "0" THEN 0 ELSE 1) EXCEPT !.proc = "closed"]
  /\ UNCHANGED <<config, probe, now, clientVars, httpVars, syncVars>>

\* child.on("error"), 49-58: the process could not be spawned, which is
\* reported at once.
ChildError ==
  /\ child.pc # "none"
  /\ child.proc = "running" /\ child.stdout = 0 /\ child.signals = <<>>
  /\ now = child.deadline - child.timeoutMs
  /\ child' = IF child.settled THEN [child EXCEPT !.proc = "failed"]
              ELSE [Settled([child EXCEPT !.settled = TRUE,
                                          !.timer = IF @ = "armed" THEN "cleared" ELSE @,
                                          !.error = "spawn"],
                            "rejected", -1)
                      EXCEPT !.proc = "failed"]
  /\ UNCHANGED <<config, probe, now, clientVars, httpVars, syncVars>>

onTimeout_NoSignal(r) ==
  IF r.settled THEN [r EXCEPT !.timer = "fired"]
  ELSE Settled([r EXCEPT !.settled = TRUE, !.timer = "fired", !.error = "timeout"],
               "rejected", -1)

\* The callback of setTimeout, 74-81
onTimeout(r) ==
  IF r.settled THEN [r EXCEPT !.timer = "fired"]
  ELSE Settled([r EXCEPT !.settled = TRUE, !.timer = "fired", !.error = "timeout",
                         !.signals = Append(@, "SIGTERM")],
               "rejected", -1)

TimeoutFires ==
  /\ child.pc # "none"
  /\ child.timer = "armed"
  /\ now >= child.deadline
  /\ child' = onTimeout(child)
  /\ UNCHANGED <<config, probe, now, clientVars, httpVars, syncVars>>

\* The caller has the outcome; another call may be made.
RunReturned ==
  /\ child.pc \in {"resolved", "rejected"}
  /\ child.proc \in {"closed"}
  /\ child.timer # "armed"
  /\ child' = NoRun
  /\ UNCHANGED <<config, probe, now, clientVars, httpVars, syncVars>>

NextRun ==
  \/ Tick
  \/ \E timeoutMs \in Timeouts : runCommand(timeoutMs)
  \/ ChildData
  \/ \E code \in ExitCodes : ChildExits(code)
  \/ ChildClose
  \/ ChildError
  \/ TimeoutFires
  \/ RunReturned

\* A timer that is due runs; a process that exited is closed.
SpecRun ==
  /\ InitClient
  /\ [][NextRun]_vars
  /\ WF_vars(TimeoutFires)
  /\ WF_vars(ChildClose)

(***************************************************************************)
(* The argument vectors of exec, ping and the log commands: one caller     *)
(* invokes the client methods as the routes do (index.js 403-417, 487-500, *)
(* 647-661, 711-732), with the parameters a request may carry and under    *)
(* the configurations createConfig may produce.                            *)
(***************************************************************************)
Fish == << "f","i","s","h" >>

\* execShell is any non-empty text; maxLogLines lies in [10, 20000] and
\* defaultLogTail in [1, 20000], each read on its own.
VectorConfigs ==
  { [DefaultConfig EXCEPT !.execShell = shell, !.defaultLogTail = limits[1],
                          !.maxLogLines = limits[2]] :
      shell \in { << "s","h" >>, << "b","a","s","h" >>, Fish },
      limits \in { << 200, 2000 >>, << 5000, 2000 >>, << 1, 10 >>, << 20000, 20000 >> } }

ShellParams ==
  { Undefined, <<>>, << "s","h" >>, << "b","a","s","h" >>, << "z","s","h" >>, << "a","s","h" >>, Fish,
    << " " >> \o << "b","a","s","h" >> \o << " " >>, << "B","A","S","H" >> }

\* More digits than a finite double has.
LongDigits == [i \in 1..310 |-> "9"]

CountParams ==
  { Undefined, <<>>, << "0" >>, << "-","4" >>, << "2" >>, << "1","0" >>, << "1","1" >>,
    << "a","b","c" >>, << "5","x" >>, << "1","e","3" >>, << "+","7" >>, LongDigits }

TailParams ==
  { Undefined, << "0" >>, << "5","0" >>, << "3","0","0","0" >>, << "a","b","c" >>,
    << "9","9","9","9","9" >>, << "5","0","x" >> }

PingTargets == { Undefined, Blank, << "1","0",".","0",".","0",".","3" >> }

\* handleContainerRoute, 487-500, from the body's arrival
ExecRequested(shellParam, commandText) ==
  /\ tasks["c1"].pc = "idle"
  /\ requestCount < MaxRequests
  /\ requestCount' = requestCount + 1
  /\ probe' = [fn |-> "containerExec", shell |-> shellParam, text |-> commandText]
  /\ LET shell   == OrElse(normalizeValue(shellParam), config.execShell)
         started == Invoke("containerExec", containerExec(WebContainer, shell, commandText),
                           cache, lastWrite)
     IN /\ tasks' = [tasks EXCEPT !["c1"] = started.task]
        /\ cache' = started.cache
        /\ lastWrite' = started.hist
  /\ UNCHANGED <<config, child, now, req, syncVars>>

\* requestHandler, 647-661, from the body's arrival
PingRequested(target, count) ==
  /\ tasks["c1"].pc = "idle"
  /\ requestCount < MaxRequests
  /\ requestCount' = requestCount + 1
  /\ probe' = [fn |-> "tailscalePing", target |-> target, count |-> count]
  /\ LET started == Invoke("tailscalePing",
                           tailscalePing(normalizeValue(target), normalizeValue(count)),
                           cache, lastWrite)
     IN /\ tasks' = [tasks EXCEPT !["c1"] = started.task]
        /\ cache' = started.cache
        /\ lastWrite' = started.hist
  /\ UNCHANGED <<config, child, now, req, syncVars>>

\* handleContainerRoute, 408-417: the logs of a container
ContainerLogsRequested(tail) ==
  /\ tasks["c1"].pc = "idle"
  /\ requestCount < MaxRequests
  /\ requestCount' = requestCount + 1
  /\ probe' = [fn |-> "containerLogs", tail |-> tail]
  /\ LET started == Invoke("containerLogs",
                           containerLogs(WebContainer,
                                         [tail |-> tail, since |-> Undefined,
                                          timestamps |-> Undefined]),
                           cache, lastWrite)
     IN /\ tasks' = [tasks EXCEPT !["c1"] = started.task]
        /\ cache' = started.cache
        /\ lastWrite' = started.hist
  /\ UNCHANGED <<config, child, now, req, syncVars>>

\* requestHandler, 711-732: the logs of the proxy
NginxLogsRequested(logType, tail) ==
  /\ tasks["c1"].pc = "idle"
  /\ requestCount < MaxRequests
  /\ requestCount' = requestCount + 1
  /\ probe' = [fn |-> "nginxLogs", tail |-> tail]
  /\ LET parsed  == parsePositiveInt(tail, config.defaultLogTail, 1, config.maxLogLines)
         started == Invoke("nginxLogs", nginxLogs(logType, parsed), cache, lastWrite)
     IN /\ tasks' = [tasks EXCEPT !["c1"] = started.task]
        /\ cache' = started.cache
        /\ lastWrite' = started.hist
  /\ UNCHANGED <<config, child, now, req, syncVars>>

InitVectors ==
  /\ config \in VectorConfigs
  /\ Started

NextVectors ==
  \/ \E shellParam \in ShellParams, commandText \in { <<>>, Ls } :
       ExecRequested(shellParam, commandText)
  \/ \E target \in PingTargets, count \in CountParams : PingRequested(target, count)
  \/ \E tail \in TailParams : ContainerLogsRequested(tail)
  \/ \E logType \in LOG_TYPES, tail \in TailParams : NginxLogsRequested(logType, tail)
  \/ \E ans \in AnswersFor(tasks["c1"]) : ClientAnswered("c1", ans)
  \/ ClientReturned("c1")

SpecVectors == InitVectors /\ [][NextVectors]_vars

(***************************************************************************)
(* C8.  As claimed: the argument list is the first non-empty source, in    *)
(* the order `arg` parameters, `args` parameter, JSON body `args`, raw     *)
(* body text; sources are not merged.                                      *)
(***************************************************************************)
RECURSIVE FirstNonEmpty(_)
FirstNonEmpty(sources) ==
  IF sources = <<>> THEN <<>>
  ELSE IF Head(sources) # <<>> THEN Head(sources)
  ELSE FirstNonEmpty(Tail(sources))

ArgSources(urlObj, body) ==
  << NormalizedValues(urlObj.arg), ArgsCsvTokens(urlObj), JsonArgs(body),
     parseShellWords(body.text) >>

StringField(value) == IF value = Undefined THEN <<>> ELSE normalizeValue(value)

CommandSources(urlObj, body) ==
  << FirstNonEmpty(<< StringField(urlObj.cmd), StringField(urlObj.command) >>),
     IF body.json.isObject
       THEN FirstNonEmpty(<< StringField(body.json.cmd), StringField(body.json.command) >>)
       ELSE <<>>,
     normalizeValue(body.text) >>

C9_FirstCommandSourceWins ==
  probe.fn = "collectCommandText" =>
    probe.out = FirstNonEmpty(CommandSources(probe.urlObj, probe.body))

(***************************************************************************)
(* C9, amended.  The command text is the trimmed query parameter (cmd, or  *)
(* command when cmd is absent or "") when that is not empty.  Otherwise a  *)
(* JSON body with a string cmd decides: its trimmed cmd is the result,     *)
(* empty or not; without a string cmd, a string command decides likewise.  *)
(* Only a body that gives neither falls back to the trimmed raw body text. *)
(***************************************************************************)
C9_CommandTextSource ==
  probe.fn = "collectCommandText" =>
    LET urlObj == probe.urlObj
        json   == probe.body.json
        query  == IF urlObj.cmd \in {Undefined, <<>>} THEN StringField(urlObj.command)
                  ELSE StringField(urlObj.cmd)
    IN CASE query # <<>> -> probe.out = query
         [] query = <<>> /\ json.isObject /\ json.cmd # Undefined ->
              probe.out = StringField(json.cmd)
         [] query = <<>> /\ json.isObject /\ json.cmd = Undefined
              /\ json.command # Undefined ->
              probe.out = StringField(json.command)
         [] OTHER -> probe.out = StringField(probe.body.text)

\* The body {"cmd":"","command":"pwd"} without a query parameter: the empty cmd
\* is the result.
C9_Witness ==
  /\ probe.fn = "collectCommandText"
  /\ probe.urlObj.cmd = Undefined /\ probe.urlObj.command = Undefined
  /\ probe.body.json = Json(Undefined, <<>>, Pwd)
  /\ probe.out = <<>>

(***************************************************************************)
(* C6.  In nginxReload the reload command is issued only after the         *)
(* validation command of the same call has answered with exit code 0; when *)
(* validation exits non-zero or never answers, the call issues no reload.  *)
(***************************************************************************)
IsCall(tk, i, cmd) == i \in 1..Len(tk.calls) /\ tk.calls[i].cmd = cmd

C6_ReloadOnlyAfterValidTest ==
  \A t \in TaskIds :
    (tasks[t].pc # "idle" /\ tasks[t].op = "nginxReload") =>
      \A i \in 1..Len(tasks[t].calls) :
        IsCall(tasks[t], i, "nginx -s reload") =>
          \E j \in 1..(i - 1) :
            IsCall(tasks[t], j, "nginx -t") /\ tasks[t].calls[j].code = "exit0"

\* A reload call whose validation failed has ended, and issued no reload.
C6_Witness ==
  \E t \in TaskIds :
    /\ tasks[t].pc = "done" /\ tasks[t].op = "nginxReload"
    /\ \E j \in 1..Len(tasks[t].calls) :
         IsCall(tasks[t], j, "nginx -t") /\ tasks[t].calls[j].code = "exit1"
    /\ \A i \in 1..Len(tasks[t].calls) : ~IsCall(tasks[t], i, "nginx -s reload")


(***************************************************************************)
(* C7.  As claimed: after a resolution of name n has succeeded, any        *)
(* further resolution of n within 10 seconds returns the identical         *)
(* identifier and performs no existence check.  (A resolution answered     *)
(* from the cache is a resolution that succeeded, and does not renew the   *)
(* entry: the claim fails 10 seconds after the entry was written.)         *)
(***************************************************************************)
Resolving(t) == tasks[t].pc # "idle" /\ tasks[t].resStart >= 0

Resolved(t) == Resolving(t) /\ tasks[t].resEnd >= 0

C7_AnyResolutionWithinTtl ==
  \A t1, t2 \in TaskIds :
    ( /\ t1 # t2
      /\ Resolved(t1) /\ Resolving(t2)
      /\ tasks[t2].resName = tasks[t1].resName
      /\ tasks[t2].resStart > tasks[t1].resEnd
      /\ tasks[t2].resStart - tasks[t1].resEnd < containerResolveTtlMs )
    => /\ tasks[t2].resChecks = 0
       /\ tasks[t2].resolved = tasks[t1].resolved

(***************************************************************************)
(* C7, amended.  The 10 seconds run from the last write of the cache entry *)
(* of n (by a resolution that made the existence check and stored an       *)
(* identifier under n): a resolution of n that starts less than 10 seconds *)
(* after that write returns the identifier it stored and invokes no        *)
(* process; one that starts 10 seconds or more after it, or before any     *)
(* write, makes a fresh existence check.                                   *)
(***************************************************************************)
WrittenWithinTtl(tk) ==
  /\ tk.resPrev # <<>>
  /\ tk.resStart - tk.resPrev[1].at < containerResolveTtlMs

C7_ResolutionWithinTtlOfWrite ==
  \A t \in TaskIds :
    Resolving(t) =>
      LET tk == tasks[t]
      IN IF WrittenWithinTtl(tk)
           THEN /\ tk.resChecks = 0
                /\ tk.resEnd = tk.resStart
                /\ tk.resolved = tk.resPrev[1].value
                /\ \A i \in 1..Len(tk.calls) : tk.calls[i].cmd # "container inspect"
           ELSE /\ tk.resChecks >= 1
                /\ \E i \in 1..Len(tk.calls) :
                     /\ tk.calls[i].cmd = "container inspect"
                     /\ tk.calls[i].target = tk.resName

\* One resolution was answered from an entry written earlier, and another, 10
\* seconds after the write of its name's entry, made the check again.
C7_Witness ==
  /\ \E t \in TaskIds :
       /\ Resolving(t) /\ WrittenWithinTtl(tasks[t])
       /\ tasks[t].resStart > tasks[t].resPrev[1].at
       /\ tasks[t].resChecks = 0
  /\ \E t \in TaskIds :
       /\ Resolving(t) /\ tasks[t].resPrev # <<>>
       /\ tasks[t].resStart - tasks[t].resPrev[1].at >= containerResolveTtlMs
       /\ tasks[t].resChecks >= 1

(***************************************************************************)
(* C1.  isCommandAllowed(name) is true if and only if name is in the       *)
(* static catalog, its category is enabled, the category's allow-set is    *)
(* "all" or holds the name, and the name is not in the global deny-set.    *)
(***************************************************************************)
CategoryEnabled(category) ==
  IF category = "safe" THEN config.enableSafeCommands
                       ELSE config.enableDangerousCommands

CategoryPolicy(category) ==
  IF category = "safe" THEN config.safeCommandsPolicy
                       ELSE config.dangerousCommandsPolicy

Permitted(name) ==
  /\ name \in SAFE_COMMAND_KEYS \cup DANGEROUS_COMMAND_KEYS
  /\ LET category == IF name \in SAFE_COMMAND_KEYS THEN "safe" ELSE "dangerous"
     IN /\ CategoryEnabled(category)
        /\ CategoryPolicy(category).allowAll \/ name \in CategoryPolicy(category).set
  /\ name \notin config.blockedCommands

C1_PolicyDecision ==
  probe.fn = "isCommandAllowed" => (probe.out <=> Permitted(probe.arg))

\* The deny-list beats "allow all": a catalog name of an enabled, allow-all
\* category that is on the deny-list has just been refused.
C1_Witness ==
  /\ probe.fn = "isCommandAllowed"
  /\ probe.arg = "nginx.reload"
  /\ config.enableDangerousCommands
  /\ config.dangerousCommandsPolicy.allowAll
  /\ probe.arg \in config.blockedCommands
  /\ probe.out = FALSE

(***************************************************************************)
(* C2.  A request to a route whose operation the policy denies is answered *)
(* with 403, the body naming exactly that operation, and no external       *)
(* process is spawned while it is handled (no resolution lookup, no docker *)
(* command); and 403 is the answer to such requests only.  The policy is   *)
(* consulted once the method has been found among the route's methods.     *)
(***************************************************************************)
PolicyConsulted ==
  /\ req.pc # "none"
  /\ req.route.kind = "operation"
  /\ req.method \in req.route.methods

NoProcessSpawned == req.calls = <<>> /\ tasks["http"] = IdleTask

C2_DeniedAnswers403NoProcess ==
  /\ PolicyConsulted /\ ~isCommandAllowed(req.route.key)
       => /\ req.pc = "responded"
          /\ req.response.status = 403
          /\ req.response.key = req.route.key
          /\ NoProcessSpawned
  /\ req.pc = "responded" /\ req.response.status = 403
       => PolicyConsulted /\ ~isCommandAllowed(req.route.key)

\* A unit-scoped or a proxy operation on the deny-list was denied.
C2_Witness ==
  /\ requestCount = MaxRequests
  /\ req.pc = "responded"
  /\ req.response.status = 403
  /\ req.response.key \in {"container.status", "nginx.reload"}
  /\ config.blockedCommands # {}
  /\ NoProcessSpawned

(***************************************************************************)
(* C10.  On every matched route the checks run in the order method,        *)
(* policy, execution: a request whose method is not among the route's      *)
(* methods is answered 405 with the list of these methods, the policy not  *)
(* consulted and no process spawned; every operation that only reads       *)
(* accepts GET alone and every other operation POST alone.                 *)
(***************************************************************************)
IsPrefix(s, t) == Len(s) <= Len(t) /\ s = SubSeq(t, 1, Len(s))

\* The operations that only read; the others change something or run a
\* caller's command.
ReadOperations ==
  { "healthz", "help", "tailscale.status", "tailscale.ip", "nginx.test",
    "nginx.version", "nginx.logs.access", "nginx.logs.error", "nginx.logs.shadow",
    "system.ps", "system.images", "system.networks", "system.volumes",
    "system.info", "system.version", "container.status", "container.logs",
    "container.inspect", "container.top", "container.stats" }

MethodsOf(key) == IF key \in ReadOperations THEN {"GET"} ELSE {"POST"}

\* Every route of the handler that has an operation of the catalog.
OperationRoutes ==
  { route \in { Dispatch(<< "dockerapi" >> \o rest) :
                  rest \in { <<>>, << "help" >>, << "healthz" >>,
                             << "tailscale", "status" >>, << "tailscale", "ping" >>,
                             << "tailscale", "ip" >>, << "nginx", "test" >>,
                             << "nginx", "reload" >>, << "nginx", "version" >>,
                             << "nginx", "logs", "access" >> } }
              \cup { handleSystemRoute(name) :
                       name \in DOMAIN safeMap \cup DOMAIN dangerousMap }
              \cup { handleContainerRoute("web", name) :
                       name \in DOMAIN safeReadonlyActions \cup DOMAIN safeMutateActions
                                  \cup DOMAIN dangerousActions
                                  \cup {"exec", "rename", "update", "raw"} }
              \cup { Route(nginxLogKeys[type], {"GET"}, "nginxLogs", type, FALSE) :
                       type \in DOMAIN nginxLogKeys } :
      route.kind = "operation" }

C10_MethodThenPolicyThenExecution ==
  /\ req.pc # "none" /\ req.route.kind \in {"operation", "logtype"}
       => /\ IsPrefix(req.checks, << "method", "policy", "execute" >>)
          /\ req.method \notin req.route.methods
               => /\ req.pc = "responded"
                  /\ req.response.status = 405
                  /\ req.response.allow = req.route.methods
                  /\ req.checks = << "method" >>
                  /\ NoProcessSpawned
          /\ ~NoProcessSpawned => req.checks = << "method", "policy", "execute" >>
          /\ req.pc = "responded" /\ req.response.status = 405
               => req.method \notin req.route.methods
  /\ { route.key : route \in OperationRoutes } = DOMAIN COMMAND_MAP
  /\ \A route \in OperationRoutes : route.methods = MethodsOf(route.key)

\* GET on the reload route, which the policy would have denied: 405, not 403.
C10_Witness ==
  /\ req.pc = "responded"
  /\ req.response.status = 405
  /\ req.route.kind = "operation"
  /\ req.route.key = "nginx.reload"
  /\ req.method = "GET"
  /\ ~isCommandAllowed(req.route.key)
  /\ req.response.allow = {"POST"}

(***************************************************************************)
(* C3.  At most one reconciliation cycle is in progress at any time,       *)
(* however the startup trigger, the interval triggers and the cycles'      *)
(* steps interleave: no two executions of runTailscaleShadowSync overlap,  *)
(* and inProgress is set exactly while one runs.                           *)
(***************************************************************************)
C3_AtMostOneCycle ==
  /\ Cardinality({ s \in CycleIds : Active(s) }) <= 1
  /\ sync.inProgress <=> \E s \in CycleIds : Active(s)

\* A second cycle is running after the first one ended, and triggers that
\* fell into a running cycle were skipped.
C3_Witness ==
  /\ sync.totalRuns = 2
  /\ timers.skipped >= 1
  /\ \E s \in CycleIds : Active(s) /\ cycles[s].wrote

(***************************************************************************)
(* C4.  A trigger that arrives while a cycle is running is skipped and not *)
(* queued: the step changes no field of the run state, spawns no process   *)
(* and leaves the cycles, the cache and the directory as they are; and a   *)
(* cycle starts only in the step of a trigger that found no cycle running  *)
(* (never in the step that ends a cycle).                                  *)
(***************************************************************************)
TriggerStep == timers' # timers

CycleStarts ==
  \/ sync'.totalRuns # sync.totalRuns
  \/ \E s \in CycleIds : cycles'[s].pc = "status" /\ cycles[s].pc # "status"

C4_SkippedTriggerChangesNothing ==
  [][ /\ TriggerStep /\ sync.inProgress
        => /\ sync' = sync
           /\ cycles' = cycles
           /\ tasks' = tasks
           /\ cache' = cache
           /\ shadowDir' = shadowDir
           /\ timers'.skipped = timers.skipped + 1
      /\ CycleStarts => TriggerStep /\ ~sync.inProgress /\ sync'.totalRuns = sync.totalRuns + 1
    ]_vars

\* Both later triggers were skipped during the one cycle, which has ended
\* with nothing else started.
C4_Witness ==
  /\ timers.skipped = MaxTriggers
  /\ timers.startup
  /\ sync.totalRuns = 1
  /\ ~sync.inProgress
  /\ \A s \in CycleIds : ~Active(s)
  /\ \A t \in CycleIds : tasks[t] = IdleTask

(***************************************************************************)
(* C5.  When a cycle that found a change and wrote the desired state has   *)
(* ended in failure (the proxy's validation or its reload failed), the     *)
(* shadow directory holds the files it held when the cycle began, with the *)
(* same contents.                                                          *)
(***************************************************************************)
FailedAfterWrite(s) ==
  /\ cycles[s].pc = "idle"
  /\ cycles[s].outcome = "failed"
  /\ cycles[s].wrote

C5_RollbackRestoresDirectory ==
  \A s \in CycleIds :
    FailedAfterWrite(s) \/ cycles[s].pc \in {"rollbackTest", "rollbackReload"}
      => shadowDir = cycles[s].dirAtStart

\* The failed cycle had removed a file whose content it would not have
\* rendered itself.
C5_Witness ==
  \E s \in CycleIds :
    /\ FailedAfterWrite(s)
    /\ \E name \in DOMAIN cycles[s].dirAtStart \ DOMAIN cycles[s].dirWritten :
         cycles[s].dirAtStart[name].port # shadowPort
    /\ shadowDir = cycles[s].dirAtStart
    /\ sync.totalFailures = 1

(***************************************************************************)
(* C11.  When a request's body exceeds the size cap, reading is aborted at *)
(* the first chunk that takes the accumulated size past the cap, the       *)
(* request receives an error response, and no command of the request's     *)
(* handler is executed.                                                    *)
(***************************************************************************)
BodyOverCap == req.pc # "none" /\ req.tooLarge

AbortedAtCap ==
  /\ req.pc = "responded"
  /\ req.received <= requestBodyLimitBytes
  /\ req.received + ChunkSize > requestBodyLimitBytes

NothingExecuted ==
  /\ NoProcessSpawned
  /\ \A i \in 1..Len(req.checks) : req.checks[i] # "execute"

\* The response is written to the connection the request came on.
ReceivesResponse == req.pc = "responded" /\ req.socket = "open"

C11_OverCapAbortsWithErrorResponse ==
  BodyOverCap
    => /\ AbortedAtCap
       /\ NothingExecuted
       /\ ReceivesResponse /\ req.response.status >= 400

\* What does hold when the body exceeds the cap.
C11_OverCapAbortsAndExecutesNothing ==
  BodyOverCap => AbortedAtCap /\ NothingExecuted /\ req.response.status = 500

(***************************************************************************)
(* C12.  For the addresses P that have a file and the addresses D of the   *)
(* active peers, a cycle computes added = D \ P, removed = P \ D and       *)
(* changed = (added or removed is not empty): added and removed are        *)
(* disjoint, and changed is false exactly when P = D.                      *)
(***************************************************************************)
Items(list) == { list[i] : i \in 1..Len(list) }

Scanned == probe.fn = "scan"

C12_DiffOfAddressSets ==
  Scanned =>
    LET P == { Stem(name) : name \in DOMAIN shadowDir }
        D == Items(probe.nextIps)
        r == probe.result
    IN /\ Items(r.added) = D \ P
       /\ Items(r.removed) = P \ D
       /\ Len(r.added) = Cardinality(D \ P)
       /\ Len(r.removed) = Cardinality(P \ D)
       /\ r.changed <=> (r.added # <<>> \/ r.removed # <<>>)
       /\ Items(r.added) \cap Items(r.removed) = {}
       /\ ~r.changed <=> P = D

\* The example: P = {10.0.0.2, 10.0.0.5}, D = {10.0.0.5, 10.0.0.10}.
C12_Witness ==
  /\ Scanned
  /\ DOMAIN shadowDir = { A2 \o DotConf, A5 \o DotConf }
  /\ probe.nextIps = << A10, A5 >>
  /\ probe.result.added = << A10 >>
  /\ probe.result.removed = << A2 >>
  /\ probe.result.nextIps = << A5, A10 >>
  /\ probe.result.changed

(***************************************************************************)
(* C13.  As claimed: two resolutions of one logical name that are in       *)
(* flight together both complete, and every entry of the resolution cache  *)
(* maps its key to a non-empty identifier that a completed resolution of   *)
(* that key returned.                                                      *)
(***************************************************************************)
BothComplete ==
  \A t \in Clients : (tasks[t].pc \notin {"idle", "done"}) ~> (tasks[t].pc = "done")

ReturnedFor(key, value) ==
  \E t \in Clients : Resolved(t) /\ tasks[t].resName = key /\ tasks[t].resolved = value

C13_EntriesReturnedForTheirKey ==
  /\ BothComplete
  /\ [](\A key \in DOMAIN cache :
          cache[key].value # <<>> /\ ReturnedFor(key, cache[key].value))

(***************************************************************************)
(* C13, amended.  Both complete, and every entry maps its key to a         *)
(* non-empty identifier that a completed resolution returned, the key      *)
(* being the name that resolution resolved or the identifier itself (a     *)
(* resolution by group label stores the identifier under both).            *)
(***************************************************************************)
ReturnedAs(key, value) ==
  \E t \in Clients :
    /\ Resolved(t)
    /\ tasks[t].resolved = value
    /\ tasks[t].resName = key \/ value = key

C13_EntriesReturnedByResolutions ==
  /\ BothComplete
  /\ [](\A key \in DOMAIN cache :
          key # <<>> /\ cache[key].value # <<>> /\ ReturnedAs(key, cache[key].value))

\* Both missed the cache, were in flight together and resolved the name to
\* different containers; the entry of the name is the later one's.
C13_Witness ==
  /\ \A t \in Clients : tasks[t].pc = "done" /\ Resolved(t) /\ tasks[t].resChecks >= 2
  /\ tasks["c1"].resolved = WebContainer
  /\ tasks["c2"].resolved = WebContainer2
  /\ DOMAIN cache = { WebService, WebContainer, WebContainer2 }

(***************************************************************************)
(* C14.  As claimed: every command Result that is rendered, returned by    *)
(* the operation or attached to the error it threw, is rendered in the     *)
(* plain-text format with status 500 when its exit code is not zero and    *)
(* 200 when it is zero.                                                    *)
(***************************************************************************)
ResultRendered ==
  /\ req.pc = "responded"
  /\ req.response.text = "command result"

\* The Result is that of the command the client method spawned last.
ExitCode == req.calls[Len(req.calls)].code

\* A Result reached the handler: returned (ok, nonzero) or thrown (failed).
ResultReached ==
  /\ req.pc = "responded"
  /\ req.outcome \in {"ok", "nonzero", "failed"}

C14_StatusByExitCode ==
  /\ ResultRendered => req.response.status = IF ExitCode = "exit0" THEN 200 ELSE 500
  /\ ResultReached => ResultRendered

(***************************************************************************)
(* C14, amended.  A Result is rendered in the plain-text format with 500   *)
(* when its exit code is not zero and 200 when it is zero, except on the   *)
(* status route with format=json: there a Result with exit code zero is    *)
(* answered 200 as JSON when its output parses, and rendered in the        *)
(* plain-text format with 500 when it does not.                            *)
(***************************************************************************)
JsonStatusRoute == req.route.op = "tailscaleStatus" /\ AsJson(req.urlObj)

C14_StatusByExitCodeExceptJsonStatus ==
  /\ ResultRendered /\ ExitCode # "exit0" => req.response.status = 500
  /\ ResultRendered /\ ExitCode = "exit0"
       => req.response.status = IF JsonStatusRoute THEN 500 ELSE 200
  /\ ResultReached /\ ~ResultRendered
       => /\ JsonStatusRoute /\ ExitCode = "exit0"
          /\ req.response.status = 200 /\ req.response.text = "json"
  /\ ResultReached /\ ExitCode # "exit0" => ResultRendered

\* A Result attached to the error of a command that may not fail.
C14_Witness ==
  /\ ResultRendered
  /\ req.outcome = "failed"
  /\ req.route.key = "nginx.test"
  /\ ExitCode = "exit1"
  /\ req.response.status = 500

(***************************************************************************)
(* C15.  As claimed: containerExec with an empty command text, and         *)
(* containerRaw, containerUpdate and systemRaw with an empty argument      *)
(* list, fail before any external process is spawned for the request.      *)
(***************************************************************************)
Executing ==
  /\ req.pc \in {"exec", "responded"}
  /\ \E i \in 1..Len(req.checks) : req.checks[i] = "execute"

EmptyInput ==
  \/ /\ req.route.op = "containerExec"
     /\ normalizeValue(collectCommandText(req.urlObj, req.body)) = <<>>
  \/ /\ req.route.op \in {"containerRaw", "containerUpdate", "systemRaw"}
     /\ collectArgs(req.urlObj, req.body) = <<>>

C15_EmptyInputSpawnsNothing ==
  Executing /\ EmptyInput
    => /\ req.calls = <<>>
       /\ req.pc = "responded" /\ req.outcome = "threw"

(***************************************************************************)
(* C15, amended.  With an empty command text or argument list the          *)
(* operation's own command is never spawned and the operation fails:       *)
(* systemRaw before any process is spawned, containerExec, containerRaw    *)
(* and containerUpdate after the container has been resolved, for which    *)
(* `docker container inspect` and `docker ps` may have been spawned.       *)
(***************************************************************************)
ResolveCommands == {"container inspect", "ps --filter label", "ps -a --filter label"}

C15_EmptyInputSpawnsOnlyResolution ==
  Executing /\ EmptyInput
    => /\ \A i \in 1..Len(req.calls) : req.calls[i].cmd \in ResolveCommands
       /\ req.route.op = "systemRaw" => req.calls = <<>>
       /\ req.pc = "responded" => req.outcome = "threw"

\* An exec without a command has failed after the container was inspected.
C15_Witness ==
  /\ req.pc = "responded" /\ Executing
  /\ req.route.op = "containerExec"
  /\ EmptyInput
  /\ req.error = "invalid"
  /\ Len(req.calls) = 1
  /\ req.calls[1].cmd = "container inspect" /\ req.calls[1].code = "exit0"

(***************************************************************************)
(* C16.  As claimed: the interpreter of an exec command is one of sh,      *)
(* bash, zsh and ash, and when the requested interpreter is not one of     *)
(* them the interpreter is the configured default shell, whatever that     *)
(* default is.                                                             *)
(***************************************************************************)
ExecCalls ==
  { i \in 1..Len(tasks["c1"].calls) :
      tasks["c1"].op = "containerExec" /\ tasks["c1"].calls[i].cmd = "exec" }

Interpreter(i) == tasks["c1"].calls[i].args[1]

RequestedShell == normalizeValue(probe.shell)

C16_FallsBackToConfiguredShell ==
  tasks["c1"].pc # "idle" =>
    \A i \in ExecCalls :
      /\ Interpreter(i) \in ExecShells
      /\ RequestedShell # <<>> /\ RequestedShell \notin ExecShells
           => Interpreter(i) = config.execShell

(***************************************************************************)
(* C16, amended.  The interpreter of an exec command is one of sh, bash,   *)
(* zsh and ash: the requested interpreter when it is one of them, the      *)
(* configured default shell when none is requested and the default is one  *)
(* of them, and sh in every other case.                                    *)
(***************************************************************************)
C16_FallsBackToSh ==
  tasks["c1"].pc # "idle" =>
    \A i \in ExecCalls :
      /\ Interpreter(i) \in ExecShells
      /\ Interpreter(i) =
           IF RequestedShell \in ExecShells THEN RequestedShell
           ELSE IF RequestedShell = <<>> /\ config.execShell \in ExecShells
             THEN config.execShell
           ELSE << "s","h" >>
      /\ tasks["c1"].calls[i].args[2] = << "-","l","c" >>
      /\ tasks["c1"].calls[i].args[3] = normalizeValue(probe.text)

\* fish was requested where bash is the default: the command runs under sh.
C16_Witness ==
  /\ tasks["c1"].pc = "run"
  /\ ExecCalls # {}
  /\ RequestedShell = << "f","i","s","h" >>
  /\ config.execShell = << "b","a","s","h" >>
  /\ \A i \in ExecCalls : Interpreter(i) = << "s","h" >>

(***************************************************************************)
(* C17.  As claimed: a request that fails with an invalid-input error (a   *)
(* unit name or rename target against the identifier syntax, an empty exec *)
(* command, empty raw or update arguments, an empty ping target) is        *)
(* answered with status 400.                                               *)
(***************************************************************************)
UnitOps ==
  { "containerStatus", "containerLogs", "containerRead", "containerMutate",
    "containerExec", "containerRename", "containerUpdate", "containerRaw" }

InvalidInputFailure ==
  /\ req.pc = "responded" /\ Executing
  /\ req.error = "invalid"
  /\ \/ req.route.op \in UnitOps /\ ~isContainerNameValid(Chars[req.route.segment])
     \/ /\ req.route.op = "containerRename"
        /\ ~isContainerNameValid(OrElse(normalizeValue(req.urlObj.to),
                                        normalizeValue(JsonField(req.body, "to"))))
     \/ EmptyInput
     \/ /\ req.route.op = "tailscalePing"
        /\ OrElse(normalizeValue(req.urlObj.target),
                  OrElse(normalizeValue(JsonField(req.body, "target")),
                         normalizeValue(req.body.text))) = <<>>

C17_InvalidInputAnswers400 ==
  InvalidInputFailure => req.response.status = 400

(***************************************************************************)
(* C18.  As claimed: a unit-scoped request whose name is not resolved (the *)
(* direct check fails and no container carries the service label) is       *)
(* answered with status 404, as are unmatched routes and unsupported       *)
(* sub-commands.                                                           *)
(***************************************************************************)
UnresolvedFailure ==
  /\ req.pc = "responded" /\ Executing
  /\ req.route.op \in UnitOps
  /\ req.error = "notfound"

C18_UnresolvedAnswers404 ==
  /\ UnresolvedFailure => req.response.status = 404
  /\ req.pc = "responded" /\ req.route.kind \in {"outside", "notfound", "unsupported"}
       => req.response.status = 404

(***************************************************************************)
(* C19.  As claimed: the count of a ping is an integer in [1,10], 1 for a  *)
(* value below 1, 10 for a value above 10 and 3 for an absent or           *)
(* non-numeric value; the command is tailscale ping -c <count> <target>    *)
(* in that order; an empty target fails before any process is spawned.     *)
(***************************************************************************)
Pinging == tasks["c1"].pc # "idle" /\ tasks["c1"].op = "tailscalePing"

PingCalls ==
  IF Pinging
    THEN { i \in 1..Len(tasks["c1"].calls) : tasks["c1"].calls[i].cmd = "tailscale ping" }
    ELSE {}

PingArgs(i) == tasks["c1"].calls[i].args

\* A decimal integer: an optional sign and digits, nothing else.
IsIntegerText(text) ==
  LET signed == text # <<>> /\ Head(text) \in {"+", "-"}
      digits == IF signed THEN Tail(text) ELSE text
  IN digits # <<>> /\ \A k \in 1..Len(digits) : digits[k] \in Digits

\* The count the sentence gives a count parameter.
ClaimedCount(count) ==
  LET text     == normalizeValue(count)
      negative == Head(text) = "-"
      digits   == StripZeros(IF Head(text) \in {"+", "-"} THEN Tail(text) ELSE text)
  IN IF ~IsIntegerText(text) THEN 3
     ELSE IF negative \/ digits = << "0" >> THEN 1
     ELSE IF Len(digits) > 2 THEN 10
     ELSE IF ParseDigits(digits) > 10 THEN 10
     ELSE ParseDigits(digits)

EmptyTargetFailsFirst ==
  Pinging /\ normalizeValue(probe.target) = <<>>
    => /\ tasks["c1"].calls = <<>>
       /\ tasks["c1"].pc = "done" /\ tasks["c1"].error = "invalid"

PingVectorInOrder(i) ==
  /\ Len(PingArgs(i)) = 5
  /\ PingArgs(i)[1] = << "t","a","i","l","s","c","a","l","e" >>
  /\ PingArgs(i)[2] = << "p","i","n","g" >>
  /\ PingArgs(i)[3] = << "-","c" >>
  /\ PingArgs(i)[4] \in { StringOf(n) : n \in 1..10 }
  /\ PingArgs(i)[5] = normalizeValue(probe.target)

LeadingCount(count) ==
  LET leading == ParseInt(normalizeValue(count))
  IN IF leading.kind # "finite" THEN 3
     ELSE IF leading.value < 1 THEN 1
     ELSE IF leading.value > 10 THEN 10
     ELSE leading.value

LogCalls ==
  IF tasks["c1"].pc # "idle" /\ tasks["c1"].op \in {"containerLogs", "nginxLogs"}
    THEN { i \in 1..Len(tasks["c1"].calls) : tasks["c1"].calls[i].cmd \in {"logs", "tail -n"} }
    ELSE {}

\* logs --tail <n> ..., tail -n <n> <file>
TailCount(i) == ParseInt(tasks["c1"].calls[i].args[3]).value

TailIsNumber == ParseInt(normalizeValue(probe.tail)).kind = "finite"

C20_TailWithinMaxLogLines ==
  \A i \in LogCalls :
    /\ TailCount(i) >= 1
    /\ TailCount(i) <= config.maxLogLines
    /\ ~TailIsNumber => TailCount(i) = config.defaultLogTail

(***************************************************************************)
(* C20, where it holds: under a configuration whose default tail is at     *)
(* most maxLogLines the tail count lies in [1, maxLogLines] and is the     *)
(* default when the parameter is absent or not a number.  Under the other  *)
(* configurations the logs of a container are read with the default, which *)
(* exceeds maxLogLines, and those of the proxy with maxLogLines.           *)
(***************************************************************************)
C20_TailWithinMaxLogLinesWhenDefaultIs ==
  \A i \in LogCalls :
    /\ TailCount(i) >= 1
    /\ config.defaultLogTail <= config.maxLogLines
         => /\ TailCount(i) <= config.maxLogLines
            /\ ~TailIsNumber => TailCount(i) = config.defaultLogTail
    /\ config.defaultLogTail > config.maxLogLines /\ ~TailIsNumber
         => TailCount(i) = IF tasks["c1"].op = "containerLogs"
                             THEN config.defaultLogTail ELSE config.maxLogLines
    /\ TailIsNumber => TailCount(i) <= config.maxLogLines

(***************************************************************************)
(* C21.  With timeoutMs > 0, a call whose process has not exited by the    *)
(* deadline fails: the process is sent SIGTERM, the promise is rejected    *)
(* with the timeout, and no Result is delivered for the call afterwards,   *)
(* whatever the exit code the process closes with.  A Result is delivered  *)
(* only for a process that exited by the deadline.                         *)
(***************************************************************************)
Overdue ==
  /\ child.pc # "none"
  /\ child.timeoutMs > 0
  /\ \/ child.proc = "running" /\ now > child.deadline
     \/ child.exitedAt > child.deadline

TimedOut ==
  /\ child.pc = "rejected"
  /\ child.timer = "fired"
  /\ child.error = "timeout"
  /\ child.signals = << "SIGTERM" >>
  /\ child.code = -1

C21_TimeoutIsTerminal ==
  /\ [](child.pc # "none" /\ child.timer = "fired" => TimedOut)
  /\ [](Overdue => child.pc # "resolved")
  /\ (Overdue ~> TimedOut)

\* The process closed with exit code 0 after the timeout: the call failed.
C21_Witness ==
  /\ TimedOut
  /\ child.proc = "closed"
  /\ child.exit = "0"
  /\ child.exitedAt > child.deadline

(***************************************************************************)
(* C22.  A cycle that fails (the status query fails or prints invalid      *)
(* JSON, the test or the reload fails, a command times out) ends inside    *)
(* runScheduledSync: the step that ends it leaves the request being        *)
(* handled and its response alone, and records the error in the run state  *)
(* (lastError, totalFailures) only.  A response shows the run state only   *)
(* on the health endpoint, which shows it as it is.                        *)
(***************************************************************************)
CycleFails(s) ==
  /\ cycles[s].pc # "idle"
  /\ cycles'[s].pc = "idle"
  /\ cycles'[s].outcome = "failed"

FailureRecordedOnly(s) ==
  /\ cycles'[s].error \in {"process", "command", "notfound", "invalid json"}
  /\ sync' = [sync EXCEPT !.totalFailures = @ + 1, !.lastError = cycles'[s].error,
                          !.inProgress = FALSE]
  /\ req' = req
  /\ requestCount' = requestCount

ResponseShowsRunState ==
  req'.pc = "responded" /\ req' # req =>
    IF req'.route.kind = "operation" /\ req'.route.op = "healthz" /\ req'.response.status = 200
      THEN /\ req'.response.health[1].lastError = sync.lastError
           /\ req'.response.health[1].totalFailures = sync.totalFailures
           /\ req'.response.health[1].inProgress = sync.inProgress
      ELSE req'.response.health = <<>>

C22_CycleErrorsStayInRunState ==
  [][ /\ \A s \in CycleIds : CycleFails(s) => FailureRecordedOnly(s)
      /\ ResponseShowsRunState ]_vars

\* After a cycle failed, the health endpoint has shown the failure.
C22_Witness ==
  /\ req.pc = "responded"
  /\ req.route.kind = "operation" /\ req.route.op = "healthz"
  /\ req.response.status = 200
  /\ req.response.health[1].totalFailures = 1
  /\ req.response.health[1].lastError = "invalid json"
  /\ ~sync.inProgress

(***************************************************************************)
(* C23.  A cycle whose test or reload failed after it wrote the desired    *)
(* state writes the previous snapshot back, runs test and reload once more *)
(* (the reload only if the test passed) and nothing after that, and ends   *)
(* with the error of the first test or reload, whether the second test     *)
(* and reload pass or fail.                                                *)
(***************************************************************************)
StepsOf(s, op) == { i \in 1..Len(cycles[s].steps) : cycles[s].steps[i].op = op }

Threw(step) == step.error \notin {"none", "pending"}

\* The first step of the cycle that threw.
FirstThrown(s) ==
  CHOOSE i \in 1..Len(cycles[s].steps) :
    /\ Threw(cycles[s].steps[i])
    /\ \A k \in 1..(i - 1) : ~Threw(cycles[s].steps[k])

\* The write of the rollback: the last write of the cycle.
RollbackWrite(s) == CHOOSE i \in StepsOf(s, "write") : \A k \in StepsOf(s, "write") : k <= i

RolledBackOnce(s) ==
  LET steps == cycles[s].steps
      first == FirstThrown(s)
      back  == RollbackWrite(s)
      after == SubSeq(steps, back + 2, Len(steps))
  IN /\ Cardinality(StepsOf(s, "write")) = 2
     /\ steps[first].op \in {"test", "reload"}
     /\ back = first + 1
     /\ steps[back].files = DOMAIN cycles[s].previousState
     /\ steps[back + 1].op = "rm"
     /\ readShadowFiles(shadowDir) = cycles[s].previousState
     /\ \/ Len(after) = 1 /\ after[1].op = "test" /\ Threw(after[1])
        \/ /\ Len(after) = 2 /\ after[1].op = "test" /\ ~Threw(after[1])
           /\ after[2].op = "reload"
     /\ cycles[s].error = steps[first].error
     /\ sync.lastError = steps[first].error

C23_RollbackOnceKeepsFirstError ==
  \A s \in CycleIds : FailedAfterWrite(s) /\ ~sync.inProgress => RolledBackOnce(s)

\* The reload failed, and the test of the rollback failed for another reason.
C23_Witness ==
  \E s \in CycleIds :
    /\ FailedAfterWrite(s) /\ ~sync.inProgress
    /\ cycles[s].steps[FirstThrown(s)].op = "reload"
    /\ cycles[s].steps[Len(cycles[s].steps)].op = "test"
    /\ cycles[s].steps[Len(cycles[s].steps)].error # cycles[s].error
    /\ Threw(cycles[s].steps[Len(cycles[s].steps)])

(***************************************************************************)
(* C24.  A cycle that starts is running until it ends as applied, as       *)
(* unchanged or as failed, and then is idle.  With every process           *)
(* answering or timing out, a cycle that started ends, and every end       *)
(* clears inProgress; a trigger that fires while no cycle is running       *)
(* starts one.                                                             *)
(***************************************************************************)
Outcome(cy) ==
  IF cy.outcome = "failed" THEN "Failed"
  ELSE IF cy.outcome = "ok" /\ cy.result.changed THEN "Applied"
  ELSE IF cy.outcome = "ok" THEN "Unchanged"
  ELSE "none"

CycleEnds(s) == cycles[s].pc # "idle" /\ cycles'[s].pc = "idle"

TriggerFires == timers' # timers

C24_StartedCycleEnds ==
  /\ []((\E s \in CycleIds : Active(s)) <=> sync.inProgress)
  /\ [][ \A s \in CycleIds :
           CycleEnds(s) => /\ Outcome(cycles'[s]) \in {"Applied", "Unchanged", "Failed"}
                           /\ sync.inProgress /\ ~sync'.inProgress ]_vars
  /\ [][ TriggerFires /\ ~sync.inProgress
           => sync'.inProgress /\ sync'.totalRuns = sync.totalRuns + 1 ]_vars
  /\ (sync.inProgress ~> ~sync.inProgress)

\* A cycle is running after an earlier cycle failed.
C24_Witness ==
  /\ sync.inProgress
  /\ sync.totalRuns = 2
  /\ sync.totalFailures = 1
  /\ \E s \in CycleIds : Active(s) /\ cycles[s].source = "interval"

(***************************************************************************)
(* C25.  When the addresses the status reports as desired are the          *)
(* addresses the directory holds files for, the cycle writes and removes   *)
(* no file, runs neither the test nor the reload, and ends as a success:   *)
(* lastError is cleared, lastSuccessAt is set, totalFailures is as it was. *)
(***************************************************************************)
\* The cycle parsed the status and compared it with the directory.
StatusCompared(s) ==
  /\ cycles[s].pc = "status"
  /\ cycles'[s] # cycles[s]
  /\ cycles'[s].outcome # "failed"

DesiredIps(cy) == { cy.result.nextIps[i] : i \in 1..Len(cy.result.nextIps) }

NoShadowStep(cy) ==
  \A i \in 1..Len(cy.steps) : cy.steps[i].op \notin {"write", "rm", "test", "reload"}

C25_UnchangedCycleTouchesNothing ==
  [][ \A s \in CycleIds :
        StatusCompared(s) /\ DesiredIps(cycles'[s]) = ShadowIps(shadowDir)
          => /\ shadowDir' = shadowDir
             /\ NoShadowStep(cycles'[s])
             /\ cycles'[s].pc = "idle" /\ cycles'[s].outcome = "ok"
             /\ ~cycles'[s].result.changed
             /\ tasks'[s] = IdleTask
             /\ sync'.lastError = ""
             /\ sync'.lastSuccessAt = now
             /\ sync'.lastResult = cycles'[s].result
             /\ sync'.totalFailures = sync.totalFailures
             /\ ~sync'.inProgress ]_vars

\* After a failed cycle, a cycle found the directory's addresses to be the
\* desired ones, the file of one holding another port than the configured.
C25_Witness ==
  /\ sync.totalFailures = 1
  /\ sync.lastError = ""
  /\ ~sync.inProgress
  /\ ~sync.lastResult.null /\ ~sync.lastResult.changed
  /\ sync.lastResult.nextIps # <<>>
  /\ \E ip \in ShadowIps(shadowDir) :
       readShadowFiles(shadowDir)[ip] # renderShadowContent(ip, shadowPort)

(***************************************************************************)
(* C26.  A cycle that found a change writes every desired file, then       *)
(* removes the files of the addresses that are not desired, then runs the  *)
(* test, then the reload.  When both succeed, the files named by a valid   *)
(* address are those of the desired addresses, and each holds the server   *)
(* line of its address with the configured port.                           *)
(***************************************************************************)
Applied(cy) == cy.pc = "idle" /\ cy.outcome = "ok" /\ cy.result.changed

StepOps(cy) == [i \in 1..Len(cy.steps) |-> cy.steps[i].op]

AppliedInOrder(cy) ==
  /\ StepOps(cy) = << "status", "write", "rm", "test", "reload" >>
  /\ \A i \in 1..Len(cy.steps) : cy.steps[i].error = "none"
  /\ cy.steps[2].files = DesiredIps(cy)
  /\ cy.steps[3].files = ShadowIps(cy.dirAtStart) \ DesiredIps(cy)

C26_AppliedCycleLeavesDesiredFiles ==
  /\ [](\A s \in CycleIds : Applied(cycles[s]) => AppliedInOrder(cycles[s]))
  /\ [][ \A s \in CycleIds :
           CycleEnds(s) /\ Applied(cycles'[s])
             => /\ ShadowIps(shadowDir') = DesiredIps(cycles'[s])
                /\ \A ip \in ShadowIps(shadowDir') :
                     shadowDir'[ip \o DotConf] = renderShadowContent(ip, shadowPort) ]_vars

\* A cycle added a file and wrote again one that held another port; its test
\* and reload succeeded.
C26_Witness ==
  \E s \in CycleIds :
    /\ Applied(cycles[s])
    /\ cycles[s].result.added # <<>>
    /\ \E ip \in DesiredIps(cycles[s]) \cap ShadowIps(cycles[s].dirAtStart) :
         cycles[s].dirAtStart[ip \o DotConf] # renderShadowContent(ip, shadowPort)

(***************************************************************************)
(* C27.  When a cycle ends, as applied, as unchanged or as failed, the run *)
(* state describes that cycle: lastError is the cycle's error (empty       *)
(* after a success), lastResult is the cycle's result, and the counters    *)
(* count it.                                                               *)
(***************************************************************************)
ErrorOf(cy) == IF cy.outcome = "ok" THEN "" ELSE cy.error

CountsCycle(s) ==
  /\ sync'.totalRuns = sync.totalRuns
  /\ sync'.lastRunAt = sync.lastRunAt
  /\ sync'.totalFailures = sync.totalFailures + (IF cycles'[s].outcome = "ok" THEN 0 ELSE 1)
  /\ sync'.lastSuccessAt = IF cycles'[s].outcome = "ok" THEN now ELSE sync.lastSuccessAt

C27_RunStateDescribesEndedCycle ==
  [][ \A s \in CycleIds :
        CycleEnds(s) => /\ sync'.lastError = ErrorOf(cycles'[s])
                        /\ sync'.lastResult = cycles'[s].result
                        /\ CountsCycle(s) ]_vars

(***************************************************************************)
(* C27, as the cycle's catch has it.  When a cycle ends the run state      *)
(* holds its error and counts it; lastResult is the cycle's result after   *)
(* a success and is left as it was after a failure.                        *)
(***************************************************************************)
C27_FailedCycleKeepsLastResult ==
  [][ \A s \in CycleIds :
        CycleEnds(s) => /\ sync'.lastError = ErrorOf(cycles'[s])
                        /\ sync'.lastResult = IF cycles'[s].outcome = "ok"
                                                THEN cycles'[s].result ELSE sync.lastResult
                        /\ CountsCycle(s) ]_vars

\* A cycle failed after a cycle that succeeded: lastResult is the earlier one's.
C27_Witness ==
  /\ ~sync.inProgress
  /\ sync.lastError # ""
  /\ ~sync.lastResult.null
  /\ \E s \in CycleIds : cycles[s].outcome = "failed" /\ cycles[s].result # sync.lastResult

(***************************************************************************)
(* C28.  A resolution that missed the cache checks the name itself; only   *)
(* when that check exits non-zero it searches the running containers by    *)
(* the group label; only when that finds nothing it searches all           *)
(* containers; only when that finds nothing it fails as not found.  The    *)
(* direct check's success stores name -> name, a search's success stores   *)
(* name -> found and found -> found, and a resolution that fails stores    *)
(* nothing.                                                                *)
(***************************************************************************)
ResolutionCommands ==
  << "container inspect", "ps --filter label", "ps -a --filter label" >>

\* The commands the resolution of task tk has spawned, in order.
ResolutionCalls(tk) ==
  SelectSeq(tk.calls, LAMBDA call : \E i \in 1..3 : call.cmd = ResolutionCommands[i])

Entry(value) == [value |-> value, expiresAt |-> now + containerResolveTtlMs]

\* The cache after a step is the cache before it with these entries.
Stores(entries) ==
  /\ DOMAIN cache' = DOMAIN cache \cup DOMAIN entries
  /\ \A k \in DOMAIN cache' :
       cache'[k] = IF k \in DOMAIN entries THEN entries[k] ELSE cache[k]

Found(t) == tasks'[t].resolved # <<>>

ResolutionStep(t) ==
  LET tk == tasks[t]
      after == tasks'[t]
      name  == tk.resName
  IN CASE tk.pc = "inspect" ->
            \/ /\ after.calls[Len(tk.calls)].code = "exit0"
               /\ after.resolved = name
               /\ Stores([k \in {name} |-> Entry(name)])
            \/ /\ after.pc = "ps" /\ after.calls[Len(tk.calls)].code = "exit1"
               /\ after.resolved = <<>>
               /\ cache' = cache
            \/ /\ after.pc = "done" /\ after.error = "process" /\ after.resolved = <<>>
               /\ cache' = cache
       [] tk.pc \in {"ps", "psa"} ->
            \/ /\ Found(t)
               /\ Stores([k \in {name, after.resolved} |-> Entry(after.resolved)])
            \/ /\ tk.pc = "ps" /\ after.pc = "psa" /\ ~Found(t)
               /\ cache' = cache
            \/ /\ after.pc = "done" /\ ~Found(t)
               /\ after.error = "process" \/ (after.error = "notfound" /\ tk.pc = "psa")
               /\ cache' = cache
       [] OTHER -> TRUE

InOrder(tk) ==
  LET calls == ResolutionCalls(tk)
  IN /\ Len(calls) <= 3
     /\ \A i \in 1..Len(calls) : calls[i].cmd = ResolutionCommands[i]
     /\ \A i \in 1..Len(calls) : calls[i].target = tk.resName
     /\ Len(calls) >= 2 => calls[1].code = "exit1"
     /\ Len(calls) = 3 => calls[2].code \in {"exit0", "exit1"}
     /\ tk.pc = "done" /\ tk.error = "notfound" => Len(calls) = 3

C28_ResolutionInOrder ==
  /\ [](\A t \in Clients : tasks[t].pc # "idle" => InOrder(tasks[t]))
  /\ [][ \A t \in Clients : tasks'[t] # tasks[t] => ResolutionStep(t) ]_vars

\* A resolution found the service's container among all containers, after the
\* direct check and the search among the running ones; another resolution of
\* the same name failed as not found.
C28_Witness ==
  \E t, u \in Clients :
    /\ tasks[t].pc # "idle" /\ tasks[u].pc # "idle"
    /\ Len(ResolutionCalls(tasks[t])) = 3
    /\ tasks[t].resolved = WebContainer /\ tasks[t].resName = WebService
    /\ WebService \in DOMAIN cache /\ cache[WebService].value = WebContainer
    /\ WebContainer \in DOMAIN cache
    /\ tasks[u].pc = "done" /\ tasks[u].error = "notfound"

(***************************************************************************)
(* The unit-scoped methods on their own: a caller invokes each of them on  *)
(* names that are identifiers and on names that are not, while the clock   *)
(* advances.                                                               *)
(***************************************************************************)
UnitNames ==
  { WebService, Blank \o WebService, << "-","x" >>, << "w","e","b","!" >>,
    << "w"," ","b" >>, << "_","x" >>, Blank }

NoOptions == [tail |-> Undefined, since |-> Undefined, timestamps |-> Undefined]

NamedMethods ==
  UNION { { [op |-> "containerStatus", plan |-> containerStatus(name)],
            [op |-> "containerLogs",   plan |-> containerLogs(name, NoOptions)],
            [op |-> "containerRead",   plan |-> containerRead(name, "container.inspect")],
            [op |-> "containerRead",   plan |-> containerRead(name, "container.top")],
            [op |-> "containerMutate", plan |-> containerMutate(name, "restart")],
            [op |-> "containerMutate", plan |-> containerMutate(name, "rm")],
            [op |-> "containerRename", plan |-> containerRename(name, WebContainer)],
            [op |-> "containerUpdate", plan |-> containerUpdate(name, << Bar >>)],
            [op |-> "containerExec",   plan |-> containerExec(name, Undefined, LsLa)],
            [op |-> "containerRaw",    plan |-> containerRaw(name, << Bar >>)] }
          : name \in UnitNames }

NextNames ==
  \/ Tick
  \/ \E method \in NamedMethods : ClientCalls("c1", method)
  \/ \E ans \in AnswersFor(tasks["c1"]) : ClientAnswered("c1", ans)
  \/ ClientReturned("c1")

SpecNames == InitClient /\ [][NextNames]_vars

(***************************************************************************)
(* C29.  A unit-scoped method called with a name that, trimmed as the      *)
(* router hands it over, is not an identifier (a letter or digit, then     *)
(* letters, digits, `_`, `.`, `-`) throws before it reads the resolution   *)
(* cache and before it spawns a process, and the cache is as it was.       *)
(***************************************************************************)
Called(t) == tasks[t].pc = "idle" /\ tasks'[t].pc # "idle"

IsIdentifier(name) ==
  /\ name # <<>>
  /\ name[1] \in Alnum
  /\ \A i \in 1..Len(name) : name[i] \in Alnum \cup {"_", ".", "-"}

RejectedUnread(tk) ==
  /\ tk.pc = "done" /\ tk.outcome = "threw" /\ tk.error = "invalid"
  /\ tk.calls = <<>>
  /\ tk.resStart = -1 /\ tk.resName = <<>>

C29_InvalidNameRejectedFirst ==
  [][ \A t \in TaskIds :
        Called(t) /\ ~IsIdentifier(normalizeValue(Head(tasks'[t].plan).container))
          => /\ RejectedUnread(tasks'[t])
             /\ cache' = cache
             /\ lastWrite' = lastWrite ]_vars

\* The cache holds entries, one of them expired, and a method called with a
\* name that is not an identifier has thrown.
C29_Witness ==
  /\ \E key \in DOMAIN cache : cache[key].expiresAt <= now
  /\ tasks["c1"].pc = "done" /\ tasks["c1"].error = "invalid"
  /\ tasks["c1"].op = "containerExec"
  /\ Head(tasks["c1"].plan).container = << "w","e","b","!" >>

(***************************************************************************)
(* C30.  An entry of the resolution cache is immutable once written: as    *)
(* long as the entry of a key has not expired, no step changes its value   *)
(* or its expiry.                                                          *)
(***************************************************************************)
Unexpired(key) == key \in DOMAIN cache /\ cache[key].expiresAt > now

C30_UnexpiredEntryImmutable ==
  [][ \A key \in DOMAIN cache :
        Unexpired(key) => key \in DOMAIN cache' /\ cache'[key] = cache[key] ]_vars

(***************************************************************************)
(* C30, as writeResolveCache has it.  An entry that has not expired stays  *)
(* in the cache, and a step that changes it is a write that gives it the   *)
(* expiry of a fresh entry, which is not earlier than the one it had.      *)
(***************************************************************************)
C30_UnexpiredEntryOnlyRewritten ==
  [][ \A key \in DOMAIN cache :
        Unexpired(key)
          => /\ key \in DOMAIN cache'
             /\ cache'[key] # cache[key]
                  => /\ cache'[key].expiresAt = now + containerResolveTtlMs
                     /\ cache'[key].expiresAt >= cache[key].expiresAt
                     /\ lastWrite'[key] = [value |-> cache'[key].value, at |-> now] ]_vars

\* The entry of the container's name, written by a resolution of that name,
\* was written again before it expired by a resolution of the service's name.
C30_Witness ==
  /\ WebContainer \in DOMAIN cache
  /\ \E t \in Clients :
       /\ tasks[t].pc # "idle"
       /\ tasks[t].resName = WebService /\ tasks[t].resolved = WebContainer
       /\ tasks[t].resStart < cache[WebContainer].expiresAt - containerResolveTtlMs
  /\ \E t \in Clients :
       /\ tasks[t].pc # "idle"
       /\ tasks[t].resName = WebContainer /\ tasks[t].resolved = WebContainer
       /\ tasks[t].resEnd < cache[WebContainer].expiresAt - containerResolveTtlMs
       /\ tasks[t].resEnd + containerResolveTtlMs > cache[WebContainer].expiresAt - containerResolveTtlMs

(***************************************************************************)
(* extractActivePeerIps on its own: payloads of at most MaxPeerNodes       *)
(* peers, each with or without the Self mark, with the local node's id,    *)
(* another or none, with explicit flags or without, with a current         *)
(* address, a blank one or none, and with lists of addresses that repeat,  *)
(* are padded, are the local node's or are out of range.                   *)
(***************************************************************************)
MaxPeerNodes == 2

Ip256 == << "1",".","1",".","1",".","2","5","6" >>

PeerNodes ==
  { Node(id, FALSE, online, curAddr, ips) :
      id \in { << "a" >>, << "b" >> },
      online \in { "true", "false", "none" },
      curAddr \in { <<>>, Blank, Ip3 },
      ips \in { << Ip2 >>, << Ip1, Ip3 >>, << Ip2, Blank \o Ip2, Ip256, Ip3 >> } }
  \cup { Node(<< "b" >>, TRUE, "true", <<>>, << Ip2 >>),
         Node(<<>>, FALSE, "true", <<>>, << Ip2 >>),
         Node(<< "b" >>, FALSE, "true", <<>>, <<>>) }

PeerPayloads ==
  { [valid |-> TRUE, Self |-> self, Peer |-> peers] :
      self \in { SelfNode, Node(<<>>, FALSE, "true", <<>>, << Ip1 >>) },
      peers \in UNION { [1..n -> PeerNodes] : n \in 0..MaxPeerNodes } }

Extract(statusPayload) ==
  /\ probe = NoProbe
  /\ probe' = [ fn |-> "extract", payload |-> statusPayload,
                result |-> extractActivePeerIps(statusPayload) ]
  /\ UNCHANGED <<config, child, now, clientVars, httpVars, syncVars>>

NextPeers == \E statusPayload \in PeerPayloads : Extract(statusPayload)

SpecPeers == InitClient /\ [][NextPeers]_vars

(***************************************************************************)
(* C31.  The list computed from a status payload holds exactly the valid   *)
(* IPv4 addresses of the peers that are not the local node and are active  *)
(* (an explicit flag is true, or there is no explicit flag and the         *)
(* current address, trimmed, is not empty), holds no address of the local  *)
(* node, and holds none twice.                                             *)
(***************************************************************************)
Extracted == probe.fn = "extract"

IsLocalNode(peer, self) ==
  \/ peer.Self
  \/ /\ normalizeValue(self.ID) # <<>>
     /\ normalizeValue(peer.ID) = normalizeValue(self.ID)

IsActive(peer) ==
  \/ peer.Online = "true"
  \/ peer.Online = "none" /\ normalizeValue(peer.CurAddr) # <<>>

ValidIps(node) ==
  { normalizeValue(ip) : ip \in { item \in Items(node.TailscaleIPs) : isIpv4(item) } }

ActivePeerIps(payload) ==
  UNION { ValidIps(peer) :
            peer \in { p \in Items(payload.Peer) :
                         ~IsLocalNode(p, payload.Self) /\ IsActive(p) } }

C31_ActivePeerIpsExactly ==
  Extracted =>
    /\ Items(probe.result) = ActivePeerIps(probe.payload) \ ValidIps(probe.payload.Self)
    /\ Items(probe.result) \cap ValidIps(probe.payload.Self) = {}
    /\ \A i, j \in 1..Len(probe.result) : i # j => probe.result[i] # probe.result[j]

\* Two peers, one active by its current address alone and one switched off by
\* an explicit flag although it has a current address; the active one lists
\* an address of the local node and one of its own.
C31_Witness ==
  /\ Extracted
  /\ probe.result = << Ip3 >>
  /\ \E i, j \in 1..Len(probe.payload.Peer) :
       /\ probe.payload.Peer[i].Online = "none" /\ probe.payload.Peer[i].CurAddr = Ip3
       /\ probe.payload.Peer[i].TailscaleIPs = << Ip1, Ip3 >>
       /\ probe.payload.Peer[j].Online = "false" /\ probe.payload.Peer[j].CurAddr = Ip3
       /\ probe.payload.Peer[j].TailscaleIPs = << Ip2 >>

(***************************************************************************)
(* C32.  A call of runCommand settles exactly once, whatever the order of  *)
(* the child's close, its error and the timer: resolve and reject are      *)
(* called once between them, with a Result whose code is a number and      *)
(* whose ok is true exactly for exit code 0, or with an error; once the    *)
(* process has ended or failed to start, the call is settled.              *)
(***************************************************************************)
Running == child.pc # "none"

\* The Result of a resolved call: code and ok as close's handler computes them.
Result(r) == [code |-> r.code, ok |-> r.exit = "0", stdout |-> r.stdout]

OneOutcome ==
  /\ child.outcomes <= 1
  /\ child.outcomes = 1 <=> child.pc \in {"resolved", "rejected"}
  /\ child.outcomes = 1 <=> child.settled
  /\ child.pc = "resolved"
       => /\ child.error = "none"
          /\ Result(child).code \in {0, 1}
          /\ Result(child).ok <=> Result(child).code = 0
          /\ child.proc = "closed"
  /\ child.pc = "rejected"
       => child.error \in {"spawn", "timeout"} /\ child.code = -1

Ended == Running /\ child.proc \in {"exited", "failed"}

C32_SettlesExactlyOnce ==
  /\ [](Running => OneOutcome)
  /\ [][ Running /\ child.pc # "pending" /\ child'.pc # "none"
           => /\ child'.pc = child.pc /\ child'.code = child.code
              /\ child'.error = child.error ]_vars
  /\ (Ended ~> (child.pc # "pending"))

\* The timer fired and rejected the call, and the killed process closed
\* afterwards; and the process failed to start and closed afterwards.
C32_Witness ==
  /\ Running
  /\ child.pc = "rejected" /\ child.error = "timeout"
  /\ child.proc = "closed" /\ child.signals = << "SIGTERM" >>
  /\ child.exit = "0"

(***************************************************************************)
(* C33.  In every state 0 <= totalFailures <= totalRuns; neither counter   *)
(* ever decreases; totalRuns is the number of cycles that started, a       *)
(* trigger that was skipped not being one; and the number of cycles that   *)
(* ended is totalRuns, less one while a cycle is in progress.              *)
(***************************************************************************)
CyclesStarted == (IF timers.startup THEN 1 ELSE 0) + timers.fired - timers.skipped

RECURSIVE Sum(_, _)
Sum(f, ids) ==
  IF ids = {} THEN 0
  ELSE LET id == CHOOSE x \in ids : TRUE IN f[id] + Sum(f, ids \ {id})

CyclesEnded == Sum([s \in CycleIds |-> cycles[s].ended], CycleIds)

C33_CountersCountCycles ==
  /\ [](/\ 0 <= sync.totalFailures /\ sync.totalFailures <= sync.totalRuns
        /\ sync.totalRuns = CyclesStarted
        /\ CyclesEnded = sync.totalRuns - (IF sync.inProgress THEN 1 ELSE 0))
  /\ [][ /\ sync'.totalRuns >= sync.totalRuns
         /\ sync'.totalFailures >= sync.totalFailures ]_vars

\* Of three triggers one was skipped; of the two cycles that started one has
\* ended, as failed, and the other is in progress.
C33_Witness ==
  /\ timers.skipped = 1 /\ timers.fired = MaxTriggers /\ timers.startup
  /\ sync.totalRuns = 2 /\ sync.totalFailures = 1
  /\ sync.inProgress
  /\ CyclesEnded = 1

(***************************************************************************)
(* C34.  lastError is the empty string exactly when no cycle has failed    *)
(* yet or the cycle that ended last succeeded; a cycle that fails adds     *)
(* exactly 1 to totalFailures and leaves lastSuccessAt as it was.          *)
(***************************************************************************)
\* The cycle that ended last has this outcome (none has ended: "none").
LastEnded(outcome) ==
  IF CyclesEnded = 0 THEN outcome = "none"
  ELSE \E s \in CycleIds : cycles[s].ended > 0 /\ cycles[s].last = outcome

C34_LastErrorOfLastCycle ==
  /\ [](sync.lastError = "" <=> (sync.totalFailures = 0 \/ LastEnded("ok")))
  /\ [][ \A s \in CycleIds :
           CycleEnds(s) /\ cycles'[s].outcome = "failed"
             => /\ sync'.totalFailures = sync.totalFailures + 1
                /\ sync'.lastSuccessAt = sync.lastSuccessAt
                /\ sync'.lastError # "" ]_vars

\* A cycle is in progress after a cycle that failed, which followed one that
\* succeeded: lastError is the failed one's and lastSuccessAt the first one's.
C34_Witness ==
  /\ sync.inProgress
  /\ sync.totalRuns = 3 /\ sync.totalFailures = 1
  /\ LastEnded("failed")
  /\ sync.lastError # ""
  /\ ~sync.lastResult.null

(***************************************************************************)
(* C35.  When a cycle ends as a success, applied or unchanged, every file  *)
(* of the directory that is named by a valid address holds the line        *)
(* rendered for that address and the configured port, whatever the         *)
(* directory held before.                                                  *)
(***************************************************************************)
AllRendered(dir) ==
  \A ip \in ShadowIps(dir) : dir[ip \o DotConf] = renderShadowContent(ip, shadowPort)

C35_SuccessLeavesRenderedFiles ==
  [][ \A s \in CycleIds :
        CycleEnds(s) /\ cycles'[s].outcome = "ok" => AllRendered(shadowDir') ]_vars

(***************************************************************************)
(* C35, as the scan has it.  A cycle that ends as applied leaves every     *)
(* address-named file rendered for the configured port; a cycle that ends  *)
(* as unchanged leaves the directory as it found it, rendered or not.      *)
(***************************************************************************)
C35_AppliedRenderedUnchangedUntouched ==
  [][ \A s \in CycleIds :
        CycleEnds(s) /\ cycles'[s].outcome = "ok"
          => IF cycles'[s].result.changed
               THEN AllRendered(shadowDir')
               ELSE shadowDir' = cycles'[s].dirAtStart ]_vars

\* A cycle ended as unchanged over a file that holds another port.
C35_Witness ==
  /\ \E s \in CycleIds :
       cycles[s].pc = "idle" /\ cycles[s].outcome = "ok" /\ ~cycles[s].result.changed
  /\ ~sync.inProgress
  /\ ~AllRendered(shadowDir)

(***************************************************************************)
(* The reload route while the startup cycle runs.  The `nginx -t` of the   *)
(* route reads the configuration, the shadow directory included, at some   *)
(* moment between its start and its exit with code 0; probe keeps the      *)
(* directory it read.                                                      *)
(***************************************************************************)
ReloadRequests ==
  { r \in Requests :
      r.urlObj = EmptyQuery /\ r.path = << "dockerapi", "nginx", "reload" >> }

LastCall(tk) == tk.calls[Len(tk.calls)]

HttpTesting ==
  /\ req.pc = "exec"
  /\ tasks["http"].pc = "run"
  /\ LastCall(tasks["http"]).cmd = "nginx -t"

\* The test the route awaits reads the directory.
TestReads ==
  /\ HttpTesting
  /\ probe = NoProbe
  /\ probe' = [fn |-> "nginx -t", dir |-> shadowDir]
  /\ UNCHANGED <<config, child, now, clientVars, httpVars, syncVars>>

\* A process the route awaits answers; a test that passes has read.
ReloadRouteAnswered(ans) ==
  /\ HttpTesting /\ ans.code = "exit0" => probe # NoProbe
  /\ HttpAnswered(ans, TRUE)

NextReload ==
  \/ \E r \in ReloadRequests : requestHandler(r)
  \/ TestReads
  \/ \E ans \in AnswersFor(tasks["http"]) : ReloadRouteAnswered(ans)
  \/ runScheduledSync("startup")
  \/ \E s \in CycleIds : \E ans \in AnswersFor(tasks[s]) :
       \E statusPayload \in PayloadsFor(s) : CycleAnswered(s, ans, statusPayload)

SpecReload == InitSync /\ [][NextReload]_vars

(***************************************************************************)
(* C36.  When the reload route runs while a cycle runs, the directory at   *)
(* the moment the route starts its `nginx -s reload` is the directory its  *)
(* `nginx -t` read: no write and no rollback of the cycle lands between    *)
(* the two.                                                                *)
(***************************************************************************)
ReloadIssued ==
  /\ HttpTesting
  /\ tasks'["http"].pc = "run"
  /\ LastCall(tasks'["http"]).cmd = "nginx -s reload"

C36_ReloadsWhatItTested ==
  [][ ReloadIssued => probe.fn = "nginx -t" /\ shadowDir = probe.dir ]_vars

(***************************************************************************)
(* C36, as the event loop has it.  The route starts its reload in the      *)
(* step that handles the exit of its test; the directory at that moment    *)
(* is the one the test read unless a cycle wrote, or rolled back, while    *)
(* the test was running.                                                   *)
(***************************************************************************)
C36_ReloadsLatestDirectory ==
  [][ ReloadIssued
        => /\ probe.fn = "nginx -t"
           /\ LastCall(tasks["http"]).code = "pending"
           /\ tasks'["http"].calls[Len(tasks["http"].calls)].code = "exit0"
           /\ shadowDir' = shadowDir ]_vars

\* The route's reload is running over a directory that a cycle wrote after
\* the route's test had read it.
C36_Witness ==
  /\ req.pc = "exec" /\ tasks["http"].pc = "run"
  /\ LastCall(tasks["http"]).cmd = "nginx -s reload"
  /\ probe.fn = "nginx -t" /\ probe.dir # shadowDir
  /\ \E s \in CycleIds : cycles[s].wrote

(***************************************************************************)
(* A caller that removes, kills, stops or renames the service's container  *)
(* while another asks for its status, the clock advancing.                 *)
(***************************************************************************)
RemovingMethods ==
  { [op |-> "containerMutate", plan |-> containerMutate(WebService, "rm")],
    [op |-> "containerMutate", plan |-> containerMutate(WebService, "kill")],
    [op |-> "containerMutate", plan |-> containerMutate(WebService, "stop")],
    [op |-> "containerRename", plan |-> containerRename(WebService, WebContainer)] }

StatusMethod == [op |-> "containerStatus", plan |-> containerStatus(WebService)]

NextRemoved ==
  \/ Tick
  \/ \E method \in RemovingMethods : ClientCalls("c1", method)
  \/ ClientCalls("c2", StatusMethod)
  \/ \E t \in Clients : \E ans \in AnswersFor(tasks[t]) : ClientAnswered(t, ans)
  \/ \E t \in Clients : ClientReturned(t)

SpecRemoved == InitClient /\ [][NextRemoved]_vars

(***************************************************************************)
(* C37.  An entry leaves the resolution cache only when a resolution of    *)
(* its key reads it at or after its expiry.  The command of a unit         *)
(* operation (rm, kill, stop, rename or any other) leaves the cache as it  *)
(* is when it returns, so a resolution of the name of a container that     *)
(* was removed or renamed, within the entry's time to live, returns the    *)
(* cached identifier and checks nothing.                                   *)
(***************************************************************************)
\* Task t begins a resolution of key in this step.
Reads(t, key) ==
  /\ tasks'[t] # tasks[t]
  /\ tasks'[t].pc # "idle"
  /\ tasks'[t].resName = key /\ tasks'[t].resStart = now

RemovedOnlyExpiredOnRead ==
  \A key \in DOMAIN cache :
    key \notin DOMAIN cache'
      => cache[key].expiresAt <= now /\ \E t \in Clients : Reads(t, key)

CommandLeavesCache ==
  \A t \in Clients :
    tasks[t].pc = "run" /\ tasks'[t] # tasks[t] => cache' = cache

HitSkipsCheck ==
  \A t \in Clients :
    Called(t) /\ Unexpired(normalizeValue(Head(tasks'[t].plan).container))
      => LET key == normalizeValue(Head(tasks'[t].plan).container)
         IN /\ tasks'[t].resChecks = 0
            /\ tasks'[t].resolved = cache[key].value
            /\ tasks'[t].pc = "run"
            /\ \A i \in 1..Len(tasks'[t].calls) :
                 tasks'[t].calls[i].cmd \notin Items(ResolutionCommands)
            /\ cache' = cache

FixedPaths ==
  { << "tailscale", "status" >>, << "tailscale", "ping" >>, << "tailscale", "ip" >>,
    << "nginx", "test" >>, << "nginx", "reload" >>, << "nginx", "version" >> }

FixedOps ==
  { "tailscaleStatus", "tailscalePing", "tailscaleIp",
    "nginxTest", "nginxReload", "nginxVersion" }

SystemOps == { "systemCommand", "systemPrune", "systemRaw", "none" }

\* The request is for the system routes or for a fixed route.
Reserved ==
  /\ req.pc # "none"
  /\ Len(req.path) >= 2 /\ req.path[1] = "dockerapi"
  /\ req.path[2] = "system" \/ Tail(req.path) \in FixedPaths

RunsUnitOperation ==
  \/ req.route.kind = "operation" /\ req.route.op \in UnitOps
  \/ tasks["http"].pc # "idle" /\ tasks["http"].op \in UnitOps

DispatchedInOrder ==
  /\ Reserved => ~RunsUnitOperation
  /\ Reserved /\ Tail(req.path) \in FixedPaths
       => req.route.kind = "operation" /\ req.route.op \in FixedOps
  /\ Reserved /\ req.path[2] = "system" /\ req.route.kind = "operation"
       => req.route.op \in SystemOps

\* A request that was answered is not answered again: its record changes
\* only when the next request arrives.
OneResponse ==
  req.pc = "responded" /\ req' # req
    => requestCount' = requestCount + 1 /\ req'.response # req.response

C38_ReservedNeverUnitAndOneResponse ==
  [][ /\ DispatchedInOrder'
      /\ OneResponse
      /\ req'.pc = "responded" => req'.socket = "open" ]_vars

\* What does hold: the dispatch, and one response written by the handler.
C38_ReservedNeverUnitAndOneAnswer ==
  [][ DispatchedInOrder' /\ OneResponse ]_vars

\* A system command whose name has a dot is not matched by the system route
\* and falls to the unit route, which has no such action and answers 404
\* without running anything on a unit named system.
C38_Witness ==
  /\ req.pc = "responded"
  /\ req.path = << "dockerapi", "system", "v1dot2" >>
  /\ req.route.kind = "unsupported"
  /\ req.route.text = "unsupported container action"
  /\ req.response.status = 404
  /\ tasks["http"].pc = "idle"

=============================================================================
